---- MODULE Spec2Model ----
(***************************************************************************)
(* Model of the actor pipeline of iot_data_saver_service: the batch        *)
(* buffer and writer (dba_task, TableDataVector, Repository::insert), the  *)
(* inbound translator (message_download) and the stream client             *)
(* (grpc_task).  Every actor is a process with a program counter; a queue  *)
(* is a sequence plus a closed flag; the storage backend and the upstream  *)
(* server are the environment.                                             *)
(***************************************************************************)
EXTENDS Integers, Sequences, FiniteSets, TLC

\* ------------------------------------------------------------------------
\* Program constants
\* ------------------------------------------------------------------------
BATCH_SIZE == 100
\* the widths and ranges of i8 and i32
I8_BITS == 8
I8_MIN == -128
I8_MAX == 127
I32_MIN == -2147483647 - 1
I32_MAX == 2147483647
\* capacity of the translator-to-writer queue (dm_to_dba)
DM_TO_DBA_CAP == 200
\* capacity of the stream-client-to-translator queue (grpc_to_dm)
GRPC_TO_DM_CAP == 200
\* capacity of the translator-to-stream-client queue (um_to_grpc)
UM_TO_GRPC_CAP == 200
\* capacity of the channel grpc_task creates for each session
SESSION_CAP == 100
\* seconds grpc_task sleeps in state Error
BACKOFF_SECS == 5
\* capacity of the arm queue, heartbeat to watchdog (h_to_w)
H_TO_W_CAP == 10
\* capacity of the timeout queue, watchdog to heartbeat (w_to_h)
W_TO_H_CAP == 10
\* capacity of the heartbeat-to-translator queue (h_to_um)
H_TO_UM_CAP == 10
\* heartbeat interval, in seconds, when HEARTBEAT_INTERVAL_SECS is not set
HEARTBEAT_INTERVAL_DEFAULT == 30
WAIT_FOR_SECS == 5
SCHEMA_TABLES == 5

\* ------------------------------------------------------------------------
\* Bounds of the model
\* ------------------------------------------------------------------------
\* records the environment hands to the writer queue in one run
MaxFeed == 205
\* length of the prefix of the feed whose variants are chosen freely; the
\* feed then goes on with the variant of its last record
MaxMixed == 2
\* messages the environment lets wait in the writer queue
MaxInFlight == 2
\* download envelopes the stream client hands to the inbound translator
MaxEnvelopes == 3
\* upload messages the outbound translator hands to the stream client
MaxUp == 2
\* download envelopes the server sends on the inbound streams
MaxDown == 1
\* failures the environment of the stream client causes in one run (refused
\* connects, refused streams, broken or closed streams, dropped sessions)
MaxFailures == 3
\* largest configured heartbeat interval, in seconds
MaxInterval == 2
MaxArms == 3
\* largest signal strength next to zero and to the ends of the i32 range
MaxRssi == 300
\* heartbeats of a run of the watchdog and the heartbeat generator
MaxPulse == 12
MaxRepoFailures == 2

VARIABLES
    \* ---- dba_task
    vector,          \* TableDataVector: the five sequences
    dbaPc,           \* "recv" | "insert" | "done"
    tdv,             \* the clone handed to Repository::insert
    insStmt,         \* position in Repository::insert (1..5), 0 outside
    tables,          \* storage: committed rows per table
    dm_to_dba,       \* translator-to-writer queue (contents)
    dm_to_dba_open,  \* TRUE while a sender of that queue is alive
    \* ---- history of dba_task (observation only)
    recvd,           \* messages dba_task took from its queue
    recvTags,        \* variants of the messages taken so far
    flushAt,         \* value of recvd at each call of Repository::insert
    results,         \* result of each call of Repository::insert
    dropped,         \* records cleared from the buffer without a commit
    \* ---- environment feeding the writer queue
    fed,             \* messages produced so far
    lastTag,         \* variant of the last message produced
    \* ---- message_download
    dmPc,            \* "recv" | "send" | "done"
    dmPending,       \* the message of a suspended tx.send, or None
    grpc_to_dm,      \* stream-client-to-translator queue (contents)
    grpc_to_dm_open, \* TRUE while a sender of that queue is alive
    \* ---- history of message_download (observation only)
    arrived,         \* the envelopes put on grpc_to_dm, in order
    dmConsumed,      \* envelopes message_download took from its queue
    dmSent,          \* the messages it put on dm_to_dba, in order
    \* ---- grpc_task
    state,           \* StateClient: "Init" | "Work" | "Error"
    grpcPc,          \* the await it is at: "connect" | "open" | "select" |
                     \* "send_up" | "send_down" | "sleep", or "done"
    tx_session,      \* Option<Sender<DataSaverUpload>>: the session it feeds
    inbound_stream,  \* Option<Streaming<DataSaverDownload>>: the session it reads
    upPending,       \* the message of a running tx_sess.send, or None
    downPending,     \* the envelope of a running tx_to_msg.send, or None
    sleepLeft,       \* seconds the running sleep still has to last
    um_to_grpc,      \* translator-to-stream-client queue (contents)
    um_to_grpc_open, \* TRUE while a sender of that queue is alive
    \* ---- the session channel and the server behind it
    sess_chan,       \* contents of the channel(100) of the current session
    sess_rx_open,    \* TRUE while the transport holds its receiver
    sessionNo,       \* sessions opened so far
    delivered,       \* upload messages the transport took, in order
    \* ---- environment of grpc_task
    now,             \* seconds elapsed in sleeps
    failures,        \* failures the environment has caused so far
    upFed,           \* upload messages produced so far
    \* ---- history of grpc_task (observation only)
    grpcEvent,       \* what the last step of grpc_task handled
    handed,          \* every call tx_sess.send(msg): the message and the session
    upFailed,        \* ids of the messages whose send returned Err
    lastFailAt,      \* value of now when Error was last entered, -1 before
    attemptAt,       \* value of now when the last connect attempt began
    attempts,        \* connect attempts begun so far
    eventsSeen,      \* everything grpcEvent has been
    recvDown,        \* Ok items grpc_task read from inbound streams
    \* ---- configuration
    heartbeat_interval_secs,  \* System::heartbeat_interval_secs
    \* ---- watchdog_timer_for_heartbeat
    wdPc,            \* "recv" (Idle) | "sleep" (Sleeping) | "send" | "done" |
                     \* "dropped"
    wdLeft,          \* seconds the running sleep still has to last
    h_to_w,          \* arm queue (contents)
    h_to_w_open,     \* TRUE while its sender (run_heartbeat) is alive
    \* ---- run_heartbeat
    hbPc,            \* "arm_first" | "recv" | "send_msg" | "arm" | "done" | "dropped"
    w_to_h,          \* timeout queue (contents)
    w_to_h_open,     \* TRUE while its sender (the watchdog) is alive
    w_to_h_rx,       \* TRUE while its receiver (run_heartbeat) is alive
    \* ---- message_upload
    umPc,            \* "recv" | "send" | "done"
    umPending,       \* the message of a suspended tx.send, or None
    h_to_um,         \* heartbeat-to-translator queue (contents)
    h_to_um_open,    \* TRUE while its sender (run_heartbeat) is alive
    \* ---- history of the heartbeat side (observation only)
    armsSent,        \* calls of tx_event.send(InitTimer) that have returned
    timeoutsEmitted, \* Timeout events the watchdog has sent
    timeoutsHandled, \* Timeout events run_heartbeat has received
    beats,           \* heartbeats run_heartbeat has sent
    sleptSince,      \* seconds the watchdog slept since the last heartbeat
                     \* (since the start before the first), up to the interval
    sleepsSince,     \* sleeps the watchdog completed since then, up to 1
    hbTrace,         \* what run_heartbeat sent, in order: "arm" | "beat"
    \* ---- AppContext::new / Repository::create_repository
    repoPc,          \* "pool" | "schema" | "sleep" | "ready"
    poolOk,          \* TRUE while the attempt in progress holds a pool
    repoStmt,        \* tables init_schema has created in this attempt
    repoLeft,        \* seconds the running sleep(WAIT_FOR) still has to last
    \* ---- history of the startup (observation only)
    repoSlept,       \* seconds slept since the last failed attempt
    repoAttempts,    \* calls of Repository::new so far
    repoFails,       \* calls of Repository::new that returned Err
    produced,        \* telemetry records the server has had for this client
    \* ---- message_download, Monitor arm: the narrowing of the signal strength
    monitor_wifi_rssi,  \* grpc::Monitor::wifi_rssi, an i32
    wifi_rssi           \* Option of MonitorMessage::wifi_rssi, an i8

dbaVars == <<vector, dbaPc, tdv, insStmt, tables, recvd, recvTags, flushAt, results,
             dropped>>
feedVars == <<fed, lastTag>>
castVars == <<monitor_wifi_rssi, wifi_rssi>>
dmQueueVars == <<dm_to_dba, dm_to_dba_open>>
dmVars == <<dmPc, dmPending, dmConsumed, dmSent>>
grpcQueueVars == <<grpc_to_dm, grpc_to_dm_open, arrived>>
grpcVars == <<state, grpcPc, tx_session, inbound_stream, upPending, downPending,
              sleepLeft, grpcEvent, handed, upFailed, lastFailAt, attemptAt, recvDown,
              attempts, eventsSeen>>
sessionVars == <<sess_chan, sess_rx_open, sessionNo, delivered>>
upQueueVars == <<um_to_grpc, um_to_grpc_open, upFed>>
envVars == <<now, failures>>
wdVars == <<wdPc, wdLeft, h_to_w, h_to_w_open>>
hbVars == <<hbPc, w_to_h, w_to_h_open, w_to_h_rx>>
umVars == <<umPc, umPending, h_to_um, h_to_um_open>>
beatHistory == <<armsSent, timeoutsEmitted, timeoutsHandled, beats, sleptSince,
                 sleepsSince, hbTrace>>
beatVars == <<heartbeat_interval_secs, wdVars, hbVars, umVars, beatHistory>>
bootVars == <<repoPc, poolOk, repoStmt, repoLeft, repoSlept, repoAttempts, repoFails,
              produced>>
vars == <<dbaVars, feedVars, dmQueueVars, dmVars, grpcQueueVars, grpcVars, sessionVars,
          upQueueVars, envVars, beatVars, bootVars, castVars>>

\* the history counts the connection attempts and the seconds slept up to
\* what MaxFailures failures take; beyond that it stays at these values
AttemptsKept == MaxFailures + 1
ClockKept == BACKOFF_SECS * MaxFailures

\* what the steps of one actor leave alone
streamSide == <<grpcVars, sessionVars, upQueueVars, envVars, beatVars, bootVars,
                castVars>>

\* Option<T>: None is the empty sequence, Some(x) the sequence of x alone
None == << >>
Some(x) == <<x>>
Unwrap(o) == o[1]

\* ------------------------------------------------------------------------
\* message::domain::Message
\* ------------------------------------------------------------------------
TelemetryTags == {"Report", "Monitor", "AlertAir", "AlertTem", "Metrics"}
MessageTags == TelemetryTags \cup {"Heartbeat"}

\* message::domain::Metadata
MetadataMessage(sender, destination, ts) ==
    [sender_user_id |-> sender, destination_id |-> destination, timestamp |-> ts]

\* a message: its variant, its metadata, and id, which stands for the
\* remaining fields (the identity of the record)
Msg(tag, id, metadata) == [tag |-> tag, id |-> id, metadata |-> metadata]

\* ------------------------------------------------------------------------
\* database::domain::TableDataVector
\* ------------------------------------------------------------------------
VectorFields == {"measurement", "system_metrics", "alert_air", "alert_th", "monitor"}

TableDataVector_new == [f \in VectorFields |-> << >>]

is_measurement_full(v) == Len(v.measurement) = BATCH_SIZE
\* (variant that never reports the monitor sequence as full)
is_monitor_full_never(v) == FALSE
is_monitor_full(v) == Len(v.monitor) = BATCH_SIZE
is_alert_air_full(v) == Len(v.alert_air) = BATCH_SIZE
is_alert_th_full(v) == Len(v.alert_th) = BATCH_SIZE
is_metrics_full(v) == Len(v.system_metrics) = BATCH_SIZE

\* (variant of the trigger that fires one record late)
is_some_vector_over(v) == \E f \in VectorFields : Len(v[f]) > BATCH_SIZE

is_some_vector_full(v) ==
    is_measurement_full(v) \/ is_alert_air_full(v) \/
        is_alert_th_full(v) \/ is_monitor_full(v) \/ is_metrics_full(v)

\* (variant of clear that resets only the sequences that are full)
clear_only_full(v) ==
    [f \in VectorFields |-> IF Len(v[f]) = BATCH_SIZE THEN << >> ELSE v[f]]

clear(v) == [f \in VectorFields |-> << >>]

\* (variant of the match whose last arm keeps a Heartbeat with the reports)
push_heartbeat_as_report(v, msg) ==
    CASE msg.tag = "Report"   -> [v EXCEPT !.measurement = Append(@, msg)]
      [] msg.tag = "Monitor"  -> [v EXCEPT !.monitor = Append(@, msg)]
      [] msg.tag = "Metrics"  -> [v EXCEPT !.system_metrics = Append(@, msg)]
      [] msg.tag = "AlertAir" -> [v EXCEPT !.alert_air = Append(@, msg)]
      [] msg.tag = "AlertTem" -> [v EXCEPT !.alert_th = Append(@, msg)]
      [] OTHER                -> [v EXCEPT !.measurement = Append(@, msg)]

\* (variant of the match that puts the message at the front of its sequence)
push_front(v, msg) ==
    CASE msg.tag = "Report"   -> [v EXCEPT !.measurement = <<msg>> \o @]
      [] msg.tag = "Monitor"  -> [v EXCEPT !.monitor = <<msg>> \o @]
      [] msg.tag = "Metrics"  -> [v EXCEPT !.system_metrics = <<msg>> \o @]
      [] msg.tag = "AlertAir" -> [v EXCEPT !.alert_air = <<msg>> \o @]
      [] msg.tag = "AlertTem" -> [v EXCEPT !.alert_th = <<msg>> \o @]
      [] OTHER                -> v

\* (variant of the match with the two alert arms swapped)
push_alerts_swapped(v, msg) ==
    CASE msg.tag = "Report"   -> [v EXCEPT !.measurement = Append(@, msg)]
      [] msg.tag = "Monitor"  -> [v EXCEPT !.monitor = Append(@, msg)]
      [] msg.tag = "Metrics"  -> [v EXCEPT !.system_metrics = Append(@, msg)]
      [] msg.tag = "AlertAir" -> [v EXCEPT !.alert_th = Append(@, msg)]
      [] msg.tag = "AlertTem" -> [v EXCEPT !.alert_air = Append(@, msg)]
      [] OTHER                -> v

\* the match of dba_task: the sequence a message is appended to
push(v, msg) ==
    CASE msg.tag = "Report"   -> [v EXCEPT !.measurement = Append(@, msg)]
      [] msg.tag = "Monitor"  -> [v EXCEPT !.monitor = Append(@, msg)]
      [] msg.tag = "Metrics"  -> [v EXCEPT !.system_metrics = Append(@, msg)]
      [] msg.tag = "AlertAir" -> [v EXCEPT !.alert_air = Append(@, msg)]
      [] msg.tag = "AlertTem" -> [v EXCEPT !.alert_th = Append(@, msg)]
      [] OTHER                -> v

\* ------------------------------------------------------------------------
\* database::repository::Repository::insert
\* ------------------------------------------------------------------------
Tables == {"measurement", "monitor", "alert_temp", "alert_air", "metric"}

\* the statements of insert in the order it issues them: the sequence read
\* and the table written
StmtOrder ==
    << [field |-> "measurement",    table |-> "measurement"],
       [field |-> "monitor",        table |-> "monitor"],
       [field |-> "alert_th",       table |-> "alert_temp"],
       [field |-> "alert_air",      table |-> "alert_air"],
       [field |-> "system_metrics", table |-> "metric"] >>

NoStmt == Len(StmtOrder) + 1

\* (variant of insert without the is_empty tests: every statement is issued)
NextStmtNoSkip(t, i) == IF i > Len(StmtOrder) THEN NoStmt ELSE i

\* the first statement at or after position i whose sequence is not empty
\* (NoStmt when there is none: insert returns Ok)
NextStmt(t, i) ==
    LET S == {j \in i..Len(StmtOrder) : t[StmtOrder[j].field] # << >>}
    IN  IF S = {} THEN NoStmt ELSE CHOOSE j \in S : \A k \in S : j <= k

\* records of t that the statements from position i on would have written
Uncommitted(t, i) ==
    UNION {{t[StmtOrder[j].field][n] : n \in 1..Len(t[StmtOrder[j].field])} :
              j \in i..Len(StmtOrder)}

\* (variant of the error path that undoes the statements issued before i)
TablesRolledBack(tb, t, i) ==
    [n \in Tables |->
        IF \E j \in 1..(i - 1) : StmtOrder[j].table = n /\ t[StmtOrder[j].field] # << >>
        THEN LET j == CHOOSE j \in 1..(i - 1) : StmtOrder[j].table = n
             IN  SubSeq(tb[n], 1, Len(tb[n]) - Len(t[StmtOrder[j].field]))
        ELSE tb[n]]

\* the tables after the statement at position i of insert(t) failed: the `?`
\* returns the error and undoes nothing
TablesAfterError(tb, t, i) == tb

\* ------------------------------------------------------------------------
\* dba_task
\* ------------------------------------------------------------------------
\* rx.recv() yields a message: append, then flush when a sequence is full
DbaRecv ==
    /\ dbaPc = "recv"
    /\ dm_to_dba # << >>
    /\ LET msg == Head(dm_to_dba)
           v   == push(vector, msg)
       IN  /\ dm_to_dba' = Tail(dm_to_dba)
           /\ vector' = v
           /\ recvd' = recvd + 1
           /\ recvTags' = recvTags \cup {msg.tag}
           /\ IF is_some_vector_full(v)
              THEN /\ dbaPc' = "insert"
                   /\ tdv' = v
                   /\ insStmt' = NextStmt(v, 1)
                   /\ flushAt' = Append(flushAt, recvd + 1)
              ELSE UNCHANGED <<dbaPc, tdv, insStmt, flushAt>>
    /\ UNCHANGED <<tables, results, dropped, dm_to_dba_open, feedVars, dmVars,
                   grpcQueueVars, streamSide>>

\* (variant of the match on the result without the vector.clear() after it)
AfterInsertNoClear(r, lost) ==
    /\ results' = Append(results, r)
    /\ dropped' = dropped \cup lost
    /\ vector' = vector
    /\ tdv' = TableDataVector_new
    /\ insStmt' = 0
    /\ dbaPc' = "recv"

\* (variant of the match on the result that keeps the batch after an Err)
AfterInsertKeepOnErr(r, lost) ==
    /\ results' = Append(results, r)
    /\ dropped' = dropped \cup lost
    /\ vector' = IF r = "Err" THEN vector ELSE clear(vector)
    /\ tdv' = TableDataVector_new
    /\ insStmt' = 0
    /\ dbaPc' = "recv"

\* what dba_task does once insert has returned r: log, vector.clear()
AfterInsert(r, lost) ==
    /\ results' = Append(results, r)
    /\ dropped' = dropped \cup lost
    /\ vector' = clear(vector)
    /\ tdv' = TableDataVector_new
    /\ insStmt' = 0
    /\ dbaPc' = "recv"

\* one bulk statement of Repository::insert; the backend accepts it or not
RepoStmt ==
    /\ dbaPc = "insert"
    /\ insStmt \in 1..Len(StmtOrder)
    /\ LET st == StmtOrder[insStmt] IN
       \E ok \in BOOLEAN :
          IF ok
          THEN /\ tables' = [tables EXCEPT ![st.table] = @ \o tdv[st.field]]
               /\ IF NextStmt(tdv, insStmt + 1) = NoStmt
                  THEN AfterInsert("Ok", {})
                  ELSE /\ insStmt' = NextStmt(tdv, insStmt + 1)
                       /\ UNCHANGED <<vector, dbaPc, tdv, results, dropped>>
          ELSE /\ tables' = TablesAfterError(tables, tdv, insStmt)
               /\ AfterInsert("Err", Uncommitted(tdv, insStmt))
    /\ UNCHANGED <<recvd, recvTags, flushAt, dmQueueVars, feedVars, dmVars,
                   grpcQueueVars, streamSide>>

\* (variant that flushes what the buffer holds before the task returns)
DbaExitWithFlush ==
    /\ dbaPc = "recv"
    /\ dm_to_dba = << >>
    /\ ~dm_to_dba_open
    /\ IF vector = TableDataVector_new
       THEN /\ dbaPc' = "done"
            /\ UNCHANGED <<tdv, insStmt, flushAt>>
       ELSE /\ dbaPc' = "insert"
            /\ tdv' = vector
            /\ insStmt' = NextStmt(vector, 1)
            /\ flushAt' = Append(flushAt, recvd)
    /\ UNCHANGED <<vector, tables, recvd, recvTags, results,
                   dropped, dmQueueVars, feedVars, dmVars, grpcQueueVars, streamSide>>

\* rx.recv() yields None: the queue is closed and drained, the task returns
DbaExit ==
    /\ dbaPc = "recv"
    /\ dm_to_dba = << >>
    /\ ~dm_to_dba_open
    /\ dbaPc' = "done"
    /\ UNCHANGED <<vector, tdv, insStmt, tables, recvd, recvTags, flushAt, results,
                   dropped, dmQueueVars, feedVars, dmVars, grpcQueueVars, streamSide>>

\* ------------------------------------------------------------------------
\* Environment of dba_task taken alone: the producer of its queue
\* ------------------------------------------------------------------------
FeedMeta == MetadataMessage("hub", "data_saver", 1)

Feed ==
    /\ dm_to_dba_open
    /\ fed < MaxFeed
    /\ Len(dm_to_dba) < MaxInFlight /\ Len(dm_to_dba) < DM_TO_DBA_CAP
    /\ \E tag \in MessageTags :
          /\ fed < MaxMixed \/ tag = lastTag
          /\ dm_to_dba' = Append(dm_to_dba, Msg(tag, fed + 1, FeedMeta))
          /\ lastTag' = tag
    /\ fed' = fed + 1
    /\ UNCHANGED <<dbaVars, dm_to_dba_open, dmVars, grpcQueueVars, streamSide>>

\* every sender of the writer queue is dropped
FeedClose ==
    /\ dm_to_dba_open
    /\ dm_to_dba_open' = FALSE
    /\ UNCHANGED <<dbaVars, feedVars, dm_to_dba, dmVars, grpcQueueVars, streamSide>>

DbaInit ==
    /\ vector = TableDataVector_new
    /\ dbaPc = "recv"
    /\ tdv = TableDataVector_new
    /\ insStmt = 0
    /\ tables = [t \in Tables |-> << >>]
    /\ recvd = 0
    /\ recvTags = {}
    /\ flushAt = << >>
    /\ results = << >>
    /\ dropped = {}

\* ------------------------------------------------------------------------
\* grpc::DataSaverDownload, as message_download reads it
\* ------------------------------------------------------------------------
\* grpc::Metadata
ProtoMetadata(sender, destination, ts) ==
    [sender_user_id |-> sender, destination_id |-> destination, timestamp |-> ts]

InnerTags == {"Measurement", "Monitor", "AlertAir", "AlertTh", "Metrics"}

\* the metadata of the records on the wire in this model
WireMeta == ProtoMetadata("hub", "data_saver", 1)

\* a download envelope: payload is "None" or "FromEdge"; inner is "None" or
\* one of the five telemetry kinds; metadata is the Option<Metadata> of that
\* telemetry record; id stands for its remaining fields
Envelope(id, payload, inner, metadata) ==
    [id |-> id, payload |-> payload, inner |-> inner, metadata |-> metadata]

\* message::logic::extract_metadata
\* (variant that substitutes a default for missing metadata)
extract_metadata_or_default(proto_meta) ==
    IF proto_meta = None
    THEN Some(MetadataMessage("", "", 0))
    ELSE LET meta == Unwrap(proto_meta)
         IN  Some(MetadataMessage(meta.sender_user_id, meta.destination_id,
                                  meta.timestamp))

extract_metadata(proto_meta) ==
    IF proto_meta = None
    THEN None
    ELSE LET meta == Unwrap(proto_meta)
         IN  Some(MetadataMessage(meta.sender_user_id, meta.destination_id,
                                  meta.timestamp))

\* (variant of the match whose AlertTh arm builds an AlertAir message)
VariantOfAlertThAsAir(inner) ==
    CASE inner = "Measurement" -> "Report"
      [] inner = "Monitor"     -> "Monitor"
      [] inner = "AlertAir"    -> "AlertAir"
      [] inner = "AlertTh"     -> "AlertAir"
      [] inner = "Metrics"     -> "Metrics"

\* `x as i8` for an i32 x
\* (variant that saturates at the ends of the i8 range)
as_i8_saturating(x) == IF x > I8_MAX THEN I8_MAX ELSE IF x < I8_MIN THEN I8_MIN ELSE x

\* the low eight bits of x, read as a two's-complement number
as_i8(x) ==
    LET low == x % (2 ^ I8_BITS)
    IN  IF low >= 2 ^ (I8_BITS - 1) THEN low - 2 ^ I8_BITS ELSE low

\* the i32 values a Monitor record arrives with in this model: those up
\* to MaxRssi from zero and those next to the ends of the i32 range
RssiInputs ==
    (-MaxRssi..MaxRssi)
        \cup {I32_MIN + k : k \in 0..MaxRssi}
        \cup {I32_MAX - MaxRssi - k : k \in 0..MaxRssi}

\* the Monitor arm builds the MonitorMessage: wifi_rssi: monitor.wifi_rssi as i8
MonitorCast ==
    /\ wifi_rssi = None
    /\ wifi_rssi' = Some(as_i8(monitor_wifi_rssi))
    /\ UNCHANGED <<monitor_wifi_rssi, dbaVars, feedVars, dmQueueVars, dmVars,
                   grpcQueueVars, grpcVars, sessionVars, upQueueVars, envVars, beatVars,
                   bootVars>>

\* the Message variant message_download builds for each telemetry kind
VariantOf(inner) ==
    CASE inner = "Measurement" -> "Report"
      [] inner = "Monitor"     -> "Monitor"
      [] inner = "AlertAir"    -> "AlertAir"
      [] inner = "AlertTh"     -> "AlertTem"
      [] inner = "Metrics"     -> "Metrics"

\* the nested matches of message_download: the message to send, if any
Translate(ev) ==
    IF ev.payload = "None" THEN None
    ELSE IF ev.inner = "None" THEN None
    ELSE LET metadata == extract_metadata(ev.metadata)
         IN  IF metadata = None THEN None
             ELSE Some(Msg(VariantOf(ev.inner), ev.id, Unwrap(metadata)))

\* ------------------------------------------------------------------------
\* message_download
\* ------------------------------------------------------------------------
\* rx.recv() yields an event: unpack it; with a message to send, go on to
\* tx.send(msg).await
MsgDownloadRecv ==
    /\ dmPc = "recv"
    /\ grpc_to_dm # << >>
    /\ grpc_to_dm' = Tail(grpc_to_dm)
    /\ dmConsumed' = dmConsumed + 1
    /\ LET out == Translate(Head(grpc_to_dm))
       IN  IF out = None
           THEN UNCHANGED <<dmPc, dmPending>>
           ELSE dmPc' = "send" /\ dmPending' = out
    /\ UNCHANGED <<dbaVars, feedVars, dmQueueVars, dmSent, grpc_to_dm_open, arrived,
                   streamSide>>

\* tx.send(msg).await ends: with the message queued once the queue has room,
\* or with an error (logged, message dropped) when the receiver is gone
MsgDownloadSend ==
    /\ dmPc = "send"
    /\ IF dbaPc = "done"
       THEN UNCHANGED <<dm_to_dba, dmSent>>
       ELSE /\ Len(dm_to_dba) < DM_TO_DBA_CAP
            /\ dm_to_dba' = Append(dm_to_dba, Unwrap(dmPending))
            /\ dmSent' = Append(dmSent, Unwrap(dmPending))
    /\ dmPc' = "recv"
    /\ dmPending' = None
    /\ UNCHANGED <<dbaVars, feedVars, dm_to_dba_open, dmConsumed, grpcQueueVars,
                   streamSide>>

\* (variant of the return that leaves the Sender<Message> alive)
MsgDownloadExitKeepsSender ==
    /\ dmPc = "recv"
    /\ grpc_to_dm = << >>
    /\ ~grpc_to_dm_open
    /\ dmPc' = "done"
    /\ UNCHANGED <<dbaVars, feedVars, dmQueueVars, dmPending, dmConsumed, dmSent,
                   grpcQueueVars, streamSide>>

\* rx.recv() yields None: the task returns and drops its Sender<Message>
MsgDownloadExit ==
    /\ dmPc = "recv"
    /\ grpc_to_dm = << >>
    /\ ~grpc_to_dm_open
    /\ dmPc' = "done"
    /\ dm_to_dba_open' = FALSE
    /\ UNCHANGED <<dbaVars, feedVars, dm_to_dba, dmPending, dmConsumed, dmSent,
                   grpcQueueVars, streamSide>>

DmInit ==
    /\ dmPc = "recv"
    /\ dmPending = None
    /\ dmConsumed = 0
    /\ dmSent = << >>

GrpcQueueInit ==
    /\ grpc_to_dm = << >>
    /\ grpc_to_dm_open = TRUE
    /\ arrived = << >>

\* ------------------------------------------------------------------------
\* Environment of message_download taken alone: the producer of its queue
\* ------------------------------------------------------------------------
\* the shapes of a download envelope
EnvelopeShapes ==
    {<<"None", "None", None>>, <<"FromEdge", "None", None>>}
        \cup {<<"FromEdge", inner, m>> : inner \in InnerTags,
                                         m \in {None, Some(WireMeta)}}

\* the stream client forwards one more envelope of the server
Arrive ==
    /\ grpc_to_dm_open
    /\ Len(arrived) < MaxEnvelopes
    /\ Len(grpc_to_dm) < GRPC_TO_DM_CAP
    /\ \E sh \in EnvelopeShapes :
          LET ev == Envelope(Len(arrived) + 1, sh[1], sh[2], sh[3])
          IN  /\ grpc_to_dm' = Append(grpc_to_dm, ev)
              /\ arrived' = Append(arrived, ev)
    /\ UNCHANGED <<dbaVars, feedVars, dmQueueVars, dmVars, grpc_to_dm_open, streamSide>>

\* the stream client returns and drops its Sender<InternalEvent>
ArriveClose ==
    /\ grpc_to_dm_open
    /\ grpc_to_dm_open' = FALSE
    /\ UNCHANGED <<dbaVars, feedVars, dmQueueVars, dmVars, grpc_to_dm, arrived,
                   streamSide>>

\* ------------------------------------------------------------------------
\* grpc_task
\* ------------------------------------------------------------------------
inboundTail == <<dbaVars, feedVars, dmQueueVars, dmVars, beatVars, bootVars, castVars>>

\* the inbound side alone
inboundSide == <<dbaVars, feedVars, dmQueueVars, dmVars, grpcQueueVars, bootVars,
                 castVars>>

\* the stream client, its sessions and its queue from message_upload
streamOnly == <<grpcVars, sessionVars, upQueueVars, envVars>>

\* grpc::DataSaverUpload; id stands for its payload
Upload(id) == [edge_id |-> "all", id |-> id]

\* (variant of the loop whose Init arm does not keep the inbound cursor)
LoopTopWithoutCursor(st, txs, inb, chan, rxo) ==
    IF st = "Error"
    THEN /\ state' = "Error"
         /\ grpcPc' = "sleep"
         /\ tx_session' = None
         /\ inbound_stream' = None
         /\ sess_chan' = << >>
         /\ sess_rx_open' = FALSE
         /\ sleepLeft' = BACKOFF_SECS
         /\ lastFailAt' = now
         /\ UNCHANGED <<attemptAt, attempts>>
    ELSE /\ state' = "Init"
         /\ grpcPc' = "connect"
         /\ tx_session' = txs
         /\ inbound_stream' = None
         /\ sess_chan' = chan
         /\ sess_rx_open' = rxo
         /\ attemptAt' = now
         /\ attempts' = IF attempts < AttemptsKept THEN attempts + 1 ELSE attempts
         /\ UNCHANGED <<sleepLeft, lastFailAt>>

\* (variant of the loop with a retry limit: the task returns when it reaches
\* the Error arm after its second attempt)
LoopTopWithRetryLimit(st, txs, inb, chan, rxo) ==
    IF st = "Error" /\ attempts >= 2
    THEN /\ state' = "Error"
         /\ grpcPc' = "done"
         /\ tx_session' = None
         /\ inbound_stream' = None
         /\ sess_chan' = << >>
         /\ sess_rx_open' = FALSE
         /\ lastFailAt' = now
         /\ UNCHANGED <<sleepLeft, attemptAt, attempts>>
    ELSE IF st = "Error"
    THEN /\ state' = "Error"
         /\ grpcPc' = "sleep"
         /\ tx_session' = None
         /\ inbound_stream' = None
         /\ sess_chan' = << >>
         /\ sess_rx_open' = FALSE
         /\ sleepLeft' = BACKOFF_SECS
         /\ lastFailAt' = now
         /\ UNCHANGED <<attemptAt, attempts>>
    ELSE IF st = "Work" /\ txs # None /\ inb # None
    THEN /\ state' = "Work"
         /\ grpcPc' = "select"
         /\ tx_session' = txs
         /\ inbound_stream' = inb
         /\ sess_chan' = chan
         /\ sess_rx_open' = rxo
         /\ UNCHANGED <<sleepLeft, lastFailAt, attemptAt, attempts>>
    ELSE /\ state' = "Init"
         /\ grpcPc' = "connect"
         /\ tx_session' = txs
         /\ inbound_stream' = inb
         /\ sess_chan' = chan
         /\ sess_rx_open' = rxo
         /\ attemptAt' = now
         /\ attempts' = attempts + 1
         /\ UNCHANGED <<sleepLeft, lastFailAt>>

\* (variant of the loop in which a failure leads straight back to Init)
LoopTopRetryAtOnce(st, txs, inb, chan, rxo) ==
    IF st = "Work" /\ txs # None /\ inb # None
    THEN /\ state' = "Work"
         /\ grpcPc' = "select"
         /\ tx_session' = txs
         /\ inbound_stream' = inb
         /\ sess_chan' = chan
         /\ sess_rx_open' = rxo
         /\ UNCHANGED <<sleepLeft, lastFailAt, attemptAt, attempts>>
    ELSE /\ state' = "Init"
         /\ grpcPc' = "connect"
         /\ tx_session' = None
         /\ inbound_stream' = None
         /\ sess_chan' = << >>
         /\ sess_rx_open' = FALSE
         /\ attemptAt' = now
         /\ attempts' = attempts + 1
         /\ lastFailAt' = IF st = "Error" THEN now ELSE lastFailAt
         /\ UNCHANGED sleepLeft

\* (variant whose Error arm releases the sender and keeps the cursor)
LoopTopErrorKeepsCursor(st, txs, inb, chan, rxo) ==
    IF st = "Error"
    THEN /\ state' = "Error"
         /\ grpcPc' = "sleep"
         /\ tx_session' = None
         /\ inbound_stream' = inb
         /\ sess_chan' = << >>
         /\ sess_rx_open' = FALSE
         /\ sleepLeft' = BACKOFF_SECS
         /\ lastFailAt' = now
         /\ UNCHANGED <<attemptAt, attempts>>
    ELSE IF st = "Work" /\ txs # None /\ inb # None
    THEN /\ state' = "Work"
         /\ grpcPc' = "select"
         /\ tx_session' = txs
         /\ inbound_stream' = inb
         /\ sess_chan' = chan
         /\ sess_rx_open' = rxo
         /\ UNCHANGED <<sleepLeft, lastFailAt, attemptAt, attempts>>
    ELSE /\ state' = "Init"
         /\ grpcPc' = "connect"
         /\ tx_session' = txs
         /\ inbound_stream' = inb
         /\ sess_chan' = chan
         /\ sess_rx_open' = rxo
         /\ attemptAt' = now
         /\ attempts' = IF attempts < AttemptsKept THEN attempts + 1 ELSE attempts
         /\ UNCHANGED <<sleepLeft, lastFailAt>>

\* `loop { match state {` reached with state st, the Option pair txs, inb and
\* the session channel chan, rxo: the arm taken up to its first await.
\*   Error: both Options are set to None (the session channel goes with its
\*          sender) and the sleep begins;
\*   Work:  with a sender and a cursor, the select! begins; without them the
\*          state is set to Init and the loop comes back to the Init arm;
\*   Init:  create_channel begins.
LoopTop(st, txs, inb, chan, rxo) ==
    IF st = "Error"
    THEN /\ state' = "Error"
         /\ grpcPc' = "sleep"
         /\ tx_session' = None
         /\ inbound_stream' = None
         /\ sess_chan' = << >>
         /\ sess_rx_open' = FALSE
         /\ sleepLeft' = BACKOFF_SECS
         /\ lastFailAt' = now
         /\ UNCHANGED <<attemptAt, attempts>>
    ELSE IF st = "Work" /\ txs # None /\ inb # None
    THEN /\ state' = "Work"
         /\ grpcPc' = "select"
         /\ tx_session' = txs
         /\ inbound_stream' = inb
         /\ sess_chan' = chan
         /\ sess_rx_open' = rxo
         /\ UNCHANGED <<sleepLeft, lastFailAt, attemptAt, attempts>>
    ELSE /\ state' = "Init"
         /\ grpcPc' = "connect"
         /\ tx_session' = txs
         /\ inbound_stream' = inb
         /\ sess_chan' = chan
         /\ sess_rx_open' = rxo
         /\ attemptAt' = now
         /\ attempts' = IF attempts < AttemptsKept THEN attempts + 1 ELSE attempts
         /\ UNCHANGED <<sleepLeft, lastFailAt>>

\* the history notes what the step handled
Handled(ev) ==
    /\ grpcEvent' = ev
    /\ eventsSeen' = eventsSeen \cup {ev}

\* the environment may still cause a failure
MayFail ==
    /\ failures < MaxFailures
    /\ failures' = failures + 1

\* Init: create_channel(..).await returns
GrpcConnect ==
    /\ grpcPc = "connect"
    /\ \E ok \in BOOLEAN :
          IF ok
          THEN /\ grpcPc' = "open"
               /\ Handled("connect_ok")
               /\ UNCHANGED <<state, tx_session, inbound_stream, sleepLeft, lastFailAt,
                              attemptAt, attempts, sess_chan, sess_rx_open, failures>>
          ELSE /\ MayFail
               /\ Handled("connect_failed")
               /\ LoopTop("Error", tx_session, inbound_stream, sess_chan, sess_rx_open)
    /\ UNCHANGED <<upPending, downPending, handed, upFailed, recvDown, sessionNo,
                   delivered, now, upQueueVars, grpcQueueVars, inboundTail>>

\* Init: grpc_client.connect_stream(request).await returns
GrpcOpen ==
    /\ grpcPc = "open"
    /\ \E ok \in BOOLEAN :
          IF ok
          THEN /\ sessionNo' = sessionNo + 1
               /\ Handled("open_ok")
               /\ LoopTop("Work", Some(sessionNo + 1), Some(sessionNo + 1), << >>, TRUE)
               /\ UNCHANGED failures
          ELSE /\ MayFail
               /\ Handled("open_failed")
               /\ LoopTop("Error", tx_session, inbound_stream, sess_chan, sess_rx_open)
               /\ UNCHANGED sessionNo
    /\ UNCHANGED <<upPending, downPending, handed, upFailed, recvDown, delivered, now,
                   upQueueVars, grpcQueueVars, inboundTail>>

\* Work, select!: rx_from_server.recv() yields Some(msg); tx_sess.send(msg)
\* is called
GrpcSelectUp ==
    /\ grpcPc = "select"
    /\ um_to_grpc # << >>
    /\ um_to_grpc' = Tail(um_to_grpc)
    /\ upPending' = Some(Head(um_to_grpc))
    /\ handed' = Append(handed, [id |-> Head(um_to_grpc).id,
                                 session |-> Unwrap(tx_session)])
    /\ grpcPc' = "send_up"
    /\ Handled("up_msg")
    /\ UNCHANGED <<state, tx_session, inbound_stream, downPending, sleepLeft, upFailed,
                   lastFailAt, attemptAt, attempts, recvDown, sessionVars,
                   um_to_grpc_open, upFed, envVars, grpcQueueVars, inboundTail>>

\* Work, select!: rx_from_server.recv() yields None: the task returns, and
\* what it owns is dropped
GrpcSelectClosed ==
    /\ grpcPc = "select"
    /\ um_to_grpc = << >>
    /\ ~um_to_grpc_open
    /\ grpcPc' = "done"
    /\ Handled("up_closed")
    /\ tx_session' = None
    /\ inbound_stream' = None
    /\ sess_chan' = << >>
    /\ sess_rx_open' = FALSE
    /\ grpc_to_dm_open' = FALSE
    /\ UNCHANGED <<state, upPending, downPending, sleepLeft, handed, upFailed, lastFailAt,
                   attemptAt, attempts, recvDown, sessionNo, delivered, upQueueVars,
                   envVars, grpc_to_dm, arrived, inboundTail>>

\* (variant of the failed send that puts the message back for the next session)
RequeueAfterSendFailed(q, msg) == <<msg>> \o q

\* the translator-to-stream-client queue after tx_sess.send(msg) returned
\* Err: the message went with the error value
AfterSendFailed(q, msg) == q

\* Work: tx_sess.send(msg).await returns: Err when the receiver of the
\* session channel is gone, Ok once the channel has room
GrpcSendUp ==
    /\ grpcPc = "send_up"
    /\ IF ~sess_rx_open
       THEN /\ upFailed' = upFailed \cup {Unwrap(upPending).id}
            /\ um_to_grpc' = AfterSendFailed(um_to_grpc, Unwrap(upPending))
            /\ Handled("send_failed")
            /\ LoopTop("Error", tx_session, inbound_stream, sess_chan, sess_rx_open)
       ELSE /\ Len(sess_chan) < SESSION_CAP
            /\ Handled("sent_up")
            /\ LoopTop("Work", tx_session, inbound_stream,
                       Append(sess_chan, Unwrap(upPending)), sess_rx_open)
            /\ UNCHANGED <<upFailed, um_to_grpc>>
    /\ upPending' = None
    /\ UNCHANGED <<downPending, handed, recvDown, sessionNo, delivered, um_to_grpc_open,
                   upFed, envVars, grpcQueueVars, inboundTail>>

\* the envelopes the server sends in the runs of the stream client: complete
\* Measurement records
ServerShapes == {<<"FromEdge", "Measurement", Some(WireMeta)>>}

\* (variant of the match on the stream item that ignores the end of the stream)
AfterStreamItemIgnoringEnd(item) == IF item = "Err" THEN "Error" ELSE "Work"

\* the state after stream.next() yielded Some(Err(e)) or None
AfterStreamItem(item) == "Error"

\* Work, select!: stream.next() yields an item: Some(Ok(download_msg)), for
\* which tx_to_msg.send is called, Some(Err(e)), or None
GrpcSelectDown ==
    /\ grpcPc = "select"
    /\ \E item \in {"Ok", "Err", "End"} :
          IF item = "Ok"
          THEN /\ recvDown < MaxDown
               /\ recvDown' = recvDown + 1
               /\ \E sh \in ServerShapes :
                     downPending' = Some(Envelope(recvDown + 1, sh[1], sh[2], sh[3]))
               /\ grpcPc' = "send_down"
               /\ Handled("down_msg")
               /\ UNCHANGED <<state, tx_session, inbound_stream, sleepLeft, lastFailAt,
                              attemptAt, attempts, sess_chan, sess_rx_open, failures>>
          ELSE /\ MayFail
               /\ Handled(IF item = "Err" THEN "stream_err" ELSE "stream_end")
               /\ LoopTop(AfterStreamItem(item), tx_session, inbound_stream, sess_chan,
                          sess_rx_open)
               /\ UNCHANGED <<downPending, recvDown>>
    /\ UNCHANGED <<upPending, handed, upFailed, sessionNo, delivered, now, upQueueVars,
                   grpcQueueVars, inboundTail>>

\* (variant that uses try_send: a full queue makes the send return at once
\* and the envelope is dropped)
GrpcSendDownTrySend ==
    /\ grpcPc = "send_down"
    /\ IF dmPc = "done" \/ Len(grpc_to_dm) >= GRPC_TO_DM_CAP
       THEN /\ Handled("down_send_failed")
            /\ UNCHANGED <<grpc_to_dm, arrived>>
       ELSE /\ grpc_to_dm' = Append(grpc_to_dm, Unwrap(downPending))
            /\ arrived' = Append(arrived, Unwrap(downPending))
            /\ Handled("sent_down")
    /\ downPending' = None
    /\ LoopTop("Work", tx_session, inbound_stream, sess_chan, sess_rx_open)
    /\ UNCHANGED <<upPending, handed, upFailed, sessionNo, delivered, recvDown,
                   upQueueVars, envVars, grpc_to_dm_open, inboundTail>>

\* (variant that treats the failed send like a failure of the stream)
GrpcSendDownErrorOnFail ==
    /\ grpcPc = "send_down"
    /\ IF dmPc = "done"
       THEN /\ Handled("down_send_failed")
            /\ LoopTop("Error", tx_session, inbound_stream, sess_chan, sess_rx_open)
            /\ UNCHANGED <<grpc_to_dm, arrived>>
       ELSE /\ Len(grpc_to_dm) < GRPC_TO_DM_CAP
            /\ grpc_to_dm' = Append(grpc_to_dm, Unwrap(downPending))
            /\ arrived' = Append(arrived, Unwrap(downPending))
            /\ Handled("sent_down")
            /\ LoopTop("Work", tx_session, inbound_stream, sess_chan, sess_rx_open)
    /\ downPending' = None
    /\ UNCHANGED <<upPending, handed, upFailed, sessionNo, delivered, recvDown,
                   upQueueVars, envVars, grpc_to_dm_open, inboundTail>>

\* Work: tx_to_msg.send(..).await returns: Err (logged, the envelope dropped)
\* when message_download is gone, Ok once the queue has room
GrpcSendDown ==
    /\ grpcPc = "send_down"
    /\ IF dmPc = "done"
       THEN /\ Handled("down_send_failed")
            /\ UNCHANGED <<grpc_to_dm, arrived>>
       ELSE /\ Len(grpc_to_dm) < GRPC_TO_DM_CAP
            /\ grpc_to_dm' = Append(grpc_to_dm, Unwrap(downPending))
            /\ arrived' = Append(arrived, Unwrap(downPending))
            /\ Handled("sent_down")
    /\ downPending' = None
    /\ LoopTop("Work", tx_session, inbound_stream, sess_chan, sess_rx_open)
    /\ UNCHANGED <<upPending, handed, upFailed, sessionNo, delivered, recvDown,
                   upQueueVars, envVars, grpc_to_dm_open, inboundTail>>

\* Work, select!: stream.next() yields Some(Ok(download_msg)) during a burst
\* of the server that is one record longer than the inbound queue
GrpcSelectDownBurst ==
    /\ grpcPc = "select"
    /\ recvDown <= GRPC_TO_DM_CAP
    /\ recvDown' = recvDown + 1
    /\ \E sh \in ServerShapes :
          downPending' = Some(Envelope(recvDown + 1, sh[1], sh[2], sh[3]))
    /\ grpcPc' = "send_down"
    /\ Handled("down_msg")
    /\ UNCHANGED <<state, tx_session, inbound_stream, sleepLeft, lastFailAt, attemptAt,
                   attempts, sess_chan, sess_rx_open, failures, upPending, handed,
                   upFailed, sessionNo, delivered, now, upQueueVars, grpcQueueVars,
                   inboundTail>>

\* message_download is dropped at an await, and with it the
\* Receiver<InternalEvent> of the queue from grpc_task, what the queue holds,
\* and the Sender<Message> of the queue to dba_task
MsgDownloadGone ==
    /\ dmPc # "done"
    /\ dmPc' = "done"
    /\ dmPending' = None
    /\ grpc_to_dm' = << >>
    /\ dm_to_dba_open' = FALSE
    /\ UNCHANGED <<dbaVars, feedVars, dm_to_dba, dmConsumed, dmSent, grpc_to_dm_open,
                   arrived, streamSide>>

\* Work, select!: stream.next() yields Some(Ok(download_msg)) after
\* message_download is gone
GrpcSelectDownDeaf ==
    /\ dmPc = "done"
    /\ GrpcSelectDownBurst

\* the envelopes of a long run of the server: complete Measurement and
\* Monitor records, and Measurement records without metadata
RunShapes ==
    {<<"FromEdge", "Measurement", Some(WireMeta)>>,
     <<"FromEdge", "Monitor", Some(WireMeta)>>,
     <<"FromEdge", "Measurement", None>>}

\* the envelopes the stream has yielded and the tasks after the stream
\* client have not dealt with yet
InFlightDown == Len(grpc_to_dm) + Len(dmPending) + Len(dm_to_dba)

\* Work, select!: stream.next() yields Some(Ok(download_msg)) in a long run
\* of the server, whose envelopes after the first MaxMixed are of one shape
GrpcSelectDownRun ==
    /\ grpcPc = "select"
    /\ recvDown < MaxFeed
    /\ InFlightDown < MaxInFlight
    /\ recvDown' = recvDown + 1
    /\ \E sh \in RunShapes :
          /\ IF recvDown < MaxMixed
             THEN TRUE
             ELSE LET last == arrived[Len(arrived)]
                  IN  sh = <<last.payload, last.inner, last.metadata>>
          /\ downPending' = Some(Envelope(recvDown + 1, sh[1], sh[2], sh[3]))
    /\ grpcPc' = "send_down"
    /\ Handled("down_msg")
    /\ UNCHANGED <<state, tx_session, inbound_stream, sleepLeft, lastFailAt, attemptAt,
                   attempts, sess_chan, sess_rx_open, failures, upPending, handed,
                   upFailed, sessionNo, delivered, now, upQueueVars, grpcQueueVars,
                   inboundTail>>

\* (variant of the timer that fires a second early)
SleepDoneEarly == sleepLeft <= 1

\* tokio::time::sleep(Duration::from_secs(5)) has lasted its duration
SleepDone == sleepLeft = 0

\* (variant of the Error arm that returns after the sleep when the queue
\* from message_upload is closed and drained)
GrpcWakeReturnsIfClosed ==
    /\ grpcPc = "sleep"
    /\ SleepDone
    /\ Handled("wake")
    /\ IF ~um_to_grpc_open /\ um_to_grpc = << >>
       THEN /\ grpcPc' = "done"
            /\ UNCHANGED <<state, tx_session, inbound_stream, sess_chan, sess_rx_open,
                           sleepLeft, lastFailAt, attemptAt, attempts>>
       ELSE LoopTop("Init", tx_session, inbound_stream, sess_chan, sess_rx_open)
    /\ UNCHANGED <<upPending, downPending, handed, upFailed, sessionNo, delivered,
                   recvDown, upQueueVars, envVars, grpcQueueVars, inboundTail>>

\* (variant of the Error arm that empties the queue from message_upload when
\* the sleep returns)
GrpcWakeDropsQueued ==
    /\ grpcPc = "sleep"
    /\ SleepDone
    /\ Handled("wake")
    /\ LoopTop("Init", tx_session, inbound_stream, sess_chan, sess_rx_open)
    /\ um_to_grpc' = << >>
    /\ UNCHANGED <<upPending, downPending, handed, upFailed, sessionNo, delivered,
                   recvDown, um_to_grpc_open, upFed, envVars, grpcQueueVars, inboundTail>>

\* Error: the sleep returns
GrpcWake ==
    /\ grpcPc = "sleep"
    /\ SleepDone
    /\ Handled("wake")
    /\ LoopTop("Init", tx_session, inbound_stream, sess_chan, sess_rx_open)
    /\ UNCHANGED <<upPending, downPending, handed, upFailed, sessionNo, delivered,
                   recvDown, upQueueVars, envVars, grpcQueueVars, inboundTail>>

\* Init: create_channel(..).await returns Err, the server being unreachable
\* for as long as it takes
GrpcConnectRefused ==
    /\ grpcPc = "connect"
    /\ Handled("connect_failed")
    /\ LoopTop("Error", tx_session, inbound_stream, sess_chan, sess_rx_open)
    /\ UNCHANGED <<upPending, downPending, handed, upFailed, recvDown, sessionNo,
                   delivered, now, failures, upQueueVars, grpcQueueVars, inboundTail>>

GrpcStep ==
    \/ GrpcConnect
    \/ GrpcOpen
    \/ GrpcSelectUp
    \/ GrpcSelectClosed
    \/ GrpcSendUp
    \/ GrpcSelectDown
    \/ GrpcSendDown
    \/ GrpcWake

GrpcInit ==
    /\ state = "Init"
    /\ grpcPc = "connect"
    /\ tx_session = None
    /\ inbound_stream = None
    /\ upPending = None
    /\ downPending = None
    /\ sleepLeft = 0
    /\ grpcEvent = "start"
    /\ handed = << >>
    /\ upFailed = {}
    /\ lastFailAt = -1
    /\ attemptAt = 0
    /\ attempts = 1
    /\ eventsSeen = {}
    /\ recvDown = 0
    /\ sess_chan = << >>
    /\ sess_rx_open = FALSE
    /\ sessionNo = 0
    /\ delivered = << >>
    /\ now = 0
    /\ failures = 0

UpQueueInit ==
    /\ um_to_grpc = << >>
    /\ um_to_grpc_open = TRUE
    /\ upFed = 0

\* ------------------------------------------------------------------------
\* Environment of grpc_task: time, the transport and the server, and the
\* producer of its queue
\* ------------------------------------------------------------------------
\* a second of the running sleep passes
Tick ==
    /\ grpcPc = "sleep"
    /\ sleepLeft > 0
    /\ sleepLeft' = sleepLeft - 1
    /\ now' = IF now < ClockKept THEN now + 1 ELSE now
    /\ UNCHANGED <<state, grpcPc, tx_session, inbound_stream, upPending, downPending,
                   grpcEvent, handed, upFailed, lastFailAt, attemptAt, attempts,
                   eventsSeen, recvDown, failures, sessionVars, upQueueVars, grpcQueueVars,
                   inboundTail>>

\* the transport takes the next message of the session channel
ServerTake ==
    /\ sess_rx_open
    /\ sess_chan # << >>
    /\ delivered' = Append(delivered, Head(sess_chan))
    /\ sess_chan' = Tail(sess_chan)
    /\ UNCHANGED <<grpcVars, sess_rx_open, sessionNo, upQueueVars, envVars,
                   grpcQueueVars, inboundTail>>

\* the connection breaks: the transport drops the receiver of the session
\* channel
ServerDropSession ==
    /\ sess_rx_open
    /\ MayFail
    /\ sess_rx_open' = FALSE
    /\ UNCHANGED <<grpcVars, sess_chan, sessionNo, delivered, upQueueVars, now,
                   grpcQueueVars, inboundTail>>

\* the outbound translator sends one more upload message
UpFeed ==
    /\ um_to_grpc_open
    /\ upFed < MaxUp
    /\ Len(um_to_grpc) < UM_TO_GRPC_CAP
    /\ um_to_grpc' = Append(um_to_grpc, Upload(upFed + 1))
    /\ upFed' = upFed + 1
    /\ UNCHANGED <<grpcVars, sessionVars, um_to_grpc_open, envVars, grpcQueueVars,
                   inboundTail>>

\* the outbound translator sends one more upload message while the stream
\* client has no session
UpFeedInOutage ==
    /\ state \in {"Init", "Error"}
    /\ UpFeed

\* the outbound translator sends one more upload message after a send to
\* message_download has failed
UpFeedAfterDiscard ==
    /\ "down_send_failed" \in eventsSeen
    /\ UpFeed

\* the outbound translator returns and drops its Sender<DataSaverUpload>
UpClose ==
    /\ um_to_grpc_open
    /\ um_to_grpc_open' = FALSE
    /\ UNCHANGED <<grpcVars, sessionVars, um_to_grpc, upFed, envVars, grpcQueueVars,
                   inboundTail>>

\* ------------------------------------------------------------------------
\* heartbeat::domain::watchdog_timer_for_heartbeat, heartbeat::logic::
\* run_heartbeat and message::logic::message_upload
\* ------------------------------------------------------------------------
\* heartbeat::domain::Event
InitTimer(d) == <<"InitTimer", d>>
Timeout == <<"Timeout">>

\* the Heartbeat run_heartbeat builds; id stands for its timestamp
HeartbeatMsg(id) == Msg("Heartbeat", id, MetadataMessage("data_saver", "all", id))

\* (variant of the bounded channel that takes a message whatever it holds)
HasRoomAlways(q, cap) == TRUE

\* tokio::sync::mpsc::channel(cap): send completes only while the channel
\* holds fewer than cap messages, and suspends otherwise
HasRoom(q, cap) == Len(q) < cap

\* the seconds slept since the last heartbeat, counted up to the interval
SleptOneMore == IF sleptSince < heartbeat_interval_secs THEN sleptSince + 1 ELSE sleptSince

\* (variant of the match that takes the InitTimer and goes on waiting)
WdRecvSkipsInitTimer ==
    /\ wdPc = "recv"
    /\ h_to_w # << >>
    /\ h_to_w' = Tail(h_to_w)
    /\ UNCHANGED <<wdPc, wdLeft>>
    /\ UNCHANGED <<h_to_w_open, heartbeat_interval_secs, hbVars, umVars, beatHistory,
                   streamOnly, inboundSide>>

\* (variant of the match in which any event starts a sleep, a Timeout one of
\* no duration)
WdRecvAnyEvent ==
    /\ wdPc = "recv"
    /\ h_to_w # << >>
    /\ h_to_w' = Tail(h_to_w)
    /\ wdPc' = "sleep"
    /\ wdLeft' = IF Head(h_to_w)[1] = "InitTimer" THEN Head(h_to_w)[2] ELSE 0
    /\ UNCHANGED <<h_to_w_open, heartbeat_interval_secs, hbVars, umVars, beatHistory,
                   streamOnly, inboundSide>>

\* ---- watchdog_timer_for_heartbeat
\* rx_from_heartbeat.recv().await returns: Some(InitTimer(d)) starts the
\* sleep, any other event is skipped, None ends the loop
WdRecv ==
    /\ wdPc = "recv"
    /\ h_to_w # << >>
    /\ h_to_w' = Tail(h_to_w)
    /\ IF Head(h_to_w)[1] = "InitTimer"
       THEN /\ wdPc' = "sleep"
            /\ wdLeft' = Head(h_to_w)[2]
       ELSE UNCHANGED <<wdPc, wdLeft>>
    /\ UNCHANGED <<h_to_w_open, heartbeat_interval_secs, hbVars, umVars, beatHistory,
                   streamOnly, inboundSide>>

\* (variant of the match that skips the None like any other event)
WdOnClosedGoOn == "recv"

\* the position of the watchdog after rx_from_heartbeat.recv() returned
\* None: break
WdOnClosed == "done"

\* rx_from_heartbeat.recv().await returns None: the task ends and drops its
\* ends of both queues
WdExit ==
    /\ wdPc = "recv"
    /\ h_to_w = << >>
    /\ ~h_to_w_open
    /\ wdPc' = WdOnClosed
    /\ w_to_h_open' = (WdOnClosed # "done")
    /\ UNCHANGED <<wdLeft, h_to_w, h_to_w_open, hbPc, w_to_h, w_to_h_rx,
                   heartbeat_interval_secs, umVars, beatHistory, streamOnly, inboundSide>>

\* a second of the running sleep(duration) passes
WdTick ==
    /\ wdPc = "sleep"
    /\ wdLeft > 0
    /\ wdLeft' = wdLeft - 1
    /\ sleptSince' = SleptOneMore
    /\ UNCHANGED <<wdPc, h_to_w, h_to_w_open, heartbeat_interval_secs, hbVars, umVars,
                   armsSent, timeoutsEmitted, timeoutsHandled, beats, sleepsSince,
                   hbTrace, streamOnly, inboundSide>>

\* (variant of the timer that returns as soon as it is polled)
WdSleepOverAtOnce == TRUE

\* sleep(duration) has lasted its duration
WdSleepOver == wdLeft = 0

\* sleep(duration).await returns; tx_to_heartbeat.send(Timeout) is called
WdWake ==
    /\ wdPc = "sleep"
    /\ WdSleepOver
    /\ wdPc' = "send"
    /\ sleepsSince' = 1
    /\ UNCHANGED <<wdLeft, h_to_w, h_to_w_open, heartbeat_interval_secs, hbVars, umVars,
                   armsSent, timeoutsEmitted, timeoutsHandled, beats, sleptSince,
                   hbTrace, streamOnly, inboundSide>>

\* (variant of the failed send that logs the error and goes on with the loop)
WdAfterSendErrGoOn == "recv"

\* the position of the watchdog after tx_to_heartbeat.send returned Err:
\* break
WdAfterSendErr == "done"

\* tx_to_heartbeat.send(Event::Timeout).await returns: Err when the receiver
\* is gone, Ok once the queue has room
WdSend ==
    /\ wdPc = "send"
    /\ IF ~w_to_h_rx
       THEN /\ wdPc' = WdAfterSendErr
            /\ w_to_h_open' = (WdAfterSendErr # "done")
            /\ UNCHANGED <<w_to_h, timeoutsEmitted>>
       ELSE /\ HasRoom(w_to_h, W_TO_H_CAP)
            /\ w_to_h' = Append(w_to_h, Timeout)
            /\ timeoutsEmitted' = timeoutsEmitted + 1
            /\ wdPc' = "recv"
            /\ UNCHANGED w_to_h_open
    /\ UNCHANGED <<wdLeft, h_to_w, h_to_w_open, hbPc, w_to_h_rx,
                   heartbeat_interval_secs, umVars, armsSent, timeoutsHandled, beats,
                   sleptSince, sleepsSince, hbTrace, streamOnly, inboundSide>>

\* ---- the watchdog on its own: the holder of Sender<Event> of the arm
\* queue sends any Event, an InitTimer with the configured duration or a
\* Timeout
ArmSenderSends ==
    /\ h_to_w_open
    /\ wdPc \notin {"done", "dropped"}
    /\ Len(h_to_w) < MaxInFlight /\ HasRoom(h_to_w, H_TO_W_CAP)
    /\ \E ev \in {InitTimer(heartbeat_interval_secs), Timeout} :
          /\ h_to_w' = Append(h_to_w, ev)
          /\ IF ev = Timeout
             THEN UNCHANGED armsSent
             ELSE armsSent < MaxArms /\ armsSent' = armsSent + 1
    /\ UNCHANGED <<wdPc, wdLeft, h_to_w_open, heartbeat_interval_secs, hbVars, umVars,
                   timeoutsEmitted, timeoutsHandled, beats, sleptSince, sleepsSince,
                   hbTrace, streamOnly, inboundSide>>

\* the Sender<Event> of the arm queue is dropped
ArmSenderDrops ==
    /\ h_to_w_open
    /\ h_to_w_open' = FALSE
    /\ UNCHANGED <<wdPc, wdLeft, h_to_w, heartbeat_interval_secs, hbVars, umVars,
                   beatHistory, streamOnly, inboundSide>>

\* the holder of Receiver<Event> of the timeout queue takes an event
TimeoutReceiverTakes ==
    /\ w_to_h_rx
    /\ w_to_h # << >>
    /\ w_to_h' = Tail(w_to_h)
    /\ timeoutsHandled' = timeoutsHandled + 1
    /\ UNCHANGED <<hbPc, w_to_h_open, w_to_h_rx, heartbeat_interval_secs, wdVars, umVars,
                   armsSent, timeoutsEmitted, beats, sleptSince, sleepsSince, hbTrace,
                   streamOnly, inboundSide>>

\* the Receiver<Event> of the timeout queue is dropped
TimeoutReceiverDrops ==
    /\ w_to_h_rx
    /\ w_to_h_rx' = FALSE
    /\ UNCHANGED <<hbPc, w_to_h, w_to_h_open, heartbeat_interval_secs, wdVars, umVars,
                   beatHistory, streamOnly, inboundSide>>

\* ---- run_heartbeat
\* (variant of SendInitTimer that sends the command a second time)
SendInitTimerTwice(goto) ==
    /\ IF wdPc \in {"done", "dropped"}
       THEN UNCHANGED h_to_w
       ELSE /\ Len(h_to_w) + 1 < H_TO_W_CAP
            /\ h_to_w' = h_to_w \o <<InitTimer(heartbeat_interval_secs),
                                      InitTimer(heartbeat_interval_secs)>>
    /\ armsSent' = armsSent + 2
    /\ hbTrace' = hbTrace \o <<"arm", "arm">>
    /\ hbPc' = goto
    /\ UNCHANGED <<wdPc, wdLeft, h_to_w_open, w_to_h, w_to_h_open, w_to_h_rx,
                   heartbeat_interval_secs, umVars, timeoutsEmitted, timeoutsHandled,
                   beats, sleptSince, sleepsSince, streamOnly, inboundSide>>

\* tx_event.send(Event::InitTimer(..)).await returns and the loop goes on
\* with goto: Err (logged) when the watchdog is gone, Ok once the queue has
\* room
SendInitTimer(goto) ==
    /\ IF wdPc \in {"done", "dropped"}
       THEN UNCHANGED h_to_w
       ELSE /\ HasRoom(h_to_w, H_TO_W_CAP)
            /\ h_to_w' = Append(h_to_w, InitTimer(heartbeat_interval_secs))
    /\ armsSent' = armsSent + 1
    /\ hbTrace' = Append(hbTrace, "arm")
    /\ hbPc' = goto
    /\ UNCHANGED <<wdPc, wdLeft, h_to_w_open, w_to_h, w_to_h_open, w_to_h_rx,
                   heartbeat_interval_secs, umVars, timeoutsEmitted, timeoutsHandled,
                   beats, sleptSince, sleepsSince, streamOnly, inboundSide>>

\* the send before the loop
HbArmFirst ==
    /\ hbPc = "arm_first"
    /\ SendInitTimer("recv")

\* (variant of the Timeout arm that re-arms without sending a heartbeat)
HbOnTimeoutSkipBeat == "arm"

\* the position of run_heartbeat after it received a Timeout: the heartbeat
\* is built and tx_msg.send is called
HbOnTimeout == "send_msg"

\* rx_from_watchdog.recv().await returns Some(event): a Timeout starts the
\* construction of the heartbeat, any other event is ignored
HbRecv ==
    /\ hbPc = "recv"
    /\ w_to_h # << >>
    /\ w_to_h' = Tail(w_to_h)
    /\ IF Head(w_to_h) = Timeout
       THEN /\ hbPc' = HbOnTimeout
            /\ timeoutsHandled' = timeoutsHandled + 1
       ELSE UNCHANGED <<hbPc, timeoutsHandled>>
    /\ UNCHANGED <<w_to_h_open, w_to_h_rx, heartbeat_interval_secs, wdVars, umVars,
                   armsSent, timeoutsEmitted, beats, sleptSince, sleepsSince, hbTrace,
                   streamOnly, inboundSide>>

\* rx_from_watchdog.recv().await returns None: the task ends and drops its
\* senders and its receiver
HbExit ==
    /\ hbPc = "recv"
    /\ w_to_h = << >>
    /\ ~w_to_h_open
    /\ hbPc' = "done"
    /\ h_to_w_open' = FALSE
    /\ h_to_um_open' = FALSE
    /\ w_to_h_rx' = FALSE
    /\ UNCHANGED <<wdPc, wdLeft, h_to_w, w_to_h, w_to_h_open, umPc, umPending, h_to_um,
                   heartbeat_interval_secs, beatHistory, streamOnly, inboundSide>>

\* (variant that goes back to recv without the InitTimer when the send of
\* the heartbeat returned Err)
HbSendMsgSkipArmOnErr ==
    /\ hbPc = "send_msg"
    /\ IF umPc = "done"
       THEN /\ hbPc' = "recv"
            /\ UNCHANGED <<h_to_um, beats, sleptSince, sleepsSince, hbTrace>>
       ELSE /\ HasRoom(h_to_um, H_TO_UM_CAP)
            /\ h_to_um' = Append(h_to_um, HeartbeatMsg(beats + 1))
            /\ beats' = beats + 1
            /\ sleptSince' = 0
            /\ sleepsSince' = 0
            /\ hbTrace' = Append(hbTrace, "beat")
            /\ hbPc' = "arm"
    /\ UNCHANGED <<w_to_h, w_to_h_open, w_to_h_rx, umPc, umPending, h_to_um_open,
                   heartbeat_interval_secs, wdVars, armsSent, timeoutsEmitted,
                   timeoutsHandled, streamOnly, inboundSide>>

\* (variant in which the heartbeat is sent only while grpc_task is connected)
HbSendMsgWhenConnected ==
    /\ hbPc = "send_msg"
    /\ state = "Work"
    /\ IF umPc = "done"
       THEN UNCHANGED <<h_to_um, beats, sleptSince, sleepsSince, hbTrace>>
       ELSE /\ HasRoom(h_to_um, H_TO_UM_CAP)
            /\ h_to_um' = Append(h_to_um, HeartbeatMsg(beats + 1))
            /\ beats' = beats + 1
            /\ sleptSince' = 0
            /\ sleepsSince' = 0
            /\ hbTrace' = Append(hbTrace, "beat")
    /\ hbPc' = "arm"
    /\ UNCHANGED <<w_to_h, w_to_h_open, w_to_h_rx, umPc, umPending, h_to_um_open,
                   heartbeat_interval_secs, wdVars, armsSent, timeoutsEmitted,
                   timeoutsHandled, streamOnly, inboundSide>>

\* tx_msg.send(Message::Heartbeat(heartbeat)).await returns: Err (logged)
\* when message_upload is gone, Ok once the queue has room
HbSendMsg ==
    /\ hbPc = "send_msg"
    /\ IF umPc = "done"
       THEN UNCHANGED <<h_to_um, beats, sleptSince, sleepsSince, hbTrace>>
       ELSE /\ HasRoom(h_to_um, H_TO_UM_CAP)
            /\ h_to_um' = Append(h_to_um, HeartbeatMsg(beats + 1))
            /\ beats' = beats + 1
            /\ sleptSince' = 0
            /\ sleepsSince' = 0
            /\ hbTrace' = Append(hbTrace, "beat")
    /\ hbPc' = "arm"
    /\ UNCHANGED <<w_to_h, w_to_h_open, w_to_h_rx, umPc, umPending, h_to_um_open,
                   heartbeat_interval_secs, wdVars, armsSent, timeoutsEmitted,
                   timeoutsHandled, streamOnly, inboundSide>>

\* the send after the heartbeat
HbArm ==
    /\ hbPc = "arm"
    /\ SendInitTimer("recv")

\* the task is dropped at an await (the runtime shuts down): its senders and
\* its receiver go with it
HbDrop ==
    /\ hbPc \notin {"done", "dropped"}
    /\ hbPc' = "dropped"
    /\ h_to_w_open' = FALSE
    /\ h_to_um_open' = FALSE
    /\ w_to_h_rx' = FALSE
    /\ UNCHANGED <<wdPc, wdLeft, h_to_w, w_to_h, w_to_h_open, umPc, umPending, h_to_um,
                   heartbeat_interval_secs, beatHistory, streamOnly, inboundSide>>

\* the watchdog task is dropped at an await: its sender and its receiver go
\* with it, and with the receiver what the arm queue holds
WdDrop ==
    /\ wdPc \notin {"done", "dropped"}
    /\ wdPc' = "dropped"
    /\ w_to_h_open' = FALSE
    /\ h_to_w' = << >>
    /\ UNCHANGED <<wdLeft, h_to_w_open, hbPc, w_to_h, w_to_h_rx,
                   heartbeat_interval_secs, umVars, beatHistory, streamOnly, inboundSide>>

\* ---- message_upload
\* rx.recv().await returns Some(msg): a Heartbeat is wrapped into a
\* DataSaverUpload and tx.send is called, any other variant is ignored
MsgUploadRecv ==
    /\ umPc = "recv"
    /\ h_to_um # << >>
    /\ h_to_um' = Tail(h_to_um)
    /\ IF Head(h_to_um).tag = "Heartbeat"
       THEN /\ umPc' = "send"
            /\ umPending' = Some(Upload(Head(h_to_um).id))
       ELSE UNCHANGED <<umPc, umPending>>
    /\ UNCHANGED <<h_to_um_open, heartbeat_interval_secs, wdVars, hbVars, beatHistory,
                   streamOnly, inboundSide>>

\* (variant of the failed send that ends the task)
MsgUploadSendStopOnErr ==
    /\ umPc = "send"
    /\ IF grpcPc = "done"
       THEN /\ umPc' = "done"
            /\ UNCHANGED <<um_to_grpc, upFed>>
       ELSE /\ HasRoom(um_to_grpc, UM_TO_GRPC_CAP)
            /\ um_to_grpc' = Append(um_to_grpc, Unwrap(umPending))
            /\ upFed' = upFed + 1
            /\ umPc' = "recv"
    /\ umPending' = None
    /\ UNCHANGED <<h_to_um, h_to_um_open, heartbeat_interval_secs, wdVars, hbVars,
                   beatHistory, um_to_grpc_open, grpcVars, sessionVars, envVars,
                   inboundSide>>

\* tx.send(grpc_msg).await returns: Err (logged) when grpc_task is gone, Ok
\* once the queue has room
MsgUploadSend ==
    /\ umPc = "send"
    /\ IF grpcPc = "done"
       THEN UNCHANGED <<um_to_grpc, upFed>>
       ELSE /\ HasRoom(um_to_grpc, UM_TO_GRPC_CAP)
            /\ um_to_grpc' = Append(um_to_grpc, Unwrap(umPending))
            /\ upFed' = upFed + 1
    /\ umPc' = "recv"
    /\ umPending' = None
    /\ UNCHANGED <<h_to_um, h_to_um_open, heartbeat_interval_secs, wdVars, hbVars,
                   beatHistory, um_to_grpc_open, grpcVars, sessionVars, envVars,
                   inboundSide>>

\* rx.recv().await returns None: the task ends and drops its sender
MsgUploadExit ==
    /\ umPc = "recv"
    /\ h_to_um = << >>
    /\ ~h_to_um_open
    /\ umPc' = "done"
    /\ um_to_grpc_open' = FALSE
    /\ UNCHANGED <<umPending, h_to_um, h_to_um_open, heartbeat_interval_secs, wdVars,
                   hbVars, beatHistory, um_to_grpc, upFed, grpcVars, sessionVars, envVars,
                   inboundSide>>

\* message_upload is dropped at an await, and with it the Receiver<Message>
\* of its queue, what the queue holds, and its Sender<DataSaverUpload>
MsgUploadGone ==
    /\ umPc # "done"
    /\ umPc' = "done"
    /\ umPending' = None
    /\ h_to_um' = << >>
    /\ um_to_grpc_open' = FALSE
    /\ UNCHANGED <<h_to_um_open, heartbeat_interval_secs, wdVars, hbVars, beatHistory,
                   um_to_grpc, upFed, grpcVars, sessionVars, envVars, inboundSide>>

\* ---- message_upload on its own: the holder of Sender<Message> of its
\* queue sends any Message, a Heartbeat or a telemetry record
UploadSenderSends ==
    /\ h_to_um_open
    /\ umPc # "done"
    /\ Len(h_to_um) < MaxInFlight /\ HasRoom(h_to_um, H_TO_UM_CAP)
    /\ \E tag \in MessageTags :
          IF tag = "Heartbeat"
          THEN /\ beats < MaxEnvelopes
               /\ h_to_um' = Append(h_to_um, HeartbeatMsg(beats + 1))
               /\ beats' = beats + 1
          ELSE /\ h_to_um' = Append(h_to_um, Msg(tag, 0, FeedMeta))
               /\ UNCHANGED beats
    /\ UNCHANGED <<umPc, umPending, h_to_um_open, heartbeat_interval_secs, wdVars, hbVars,
                   armsSent, timeoutsEmitted, timeoutsHandled, sleptSince, sleepsSince,
                   hbTrace, streamOnly, inboundSide>>

\* the Sender<Message> of the queue of message_upload is dropped
UploadSenderDrops ==
    /\ h_to_um_open
    /\ h_to_um_open' = FALSE
    /\ UNCHANGED <<umPc, umPending, h_to_um, heartbeat_interval_secs, wdVars, hbVars,
                   beatHistory, streamOnly, inboundSide>>

\* grpc_task is dropped at an await, and with it the Receiver<DataSaverUpload>
\* of the queue from message_upload
GrpcTaskGone ==
    /\ grpcPc # "done"
    /\ grpcPc' = "done"
    /\ Handled("dropped")
    /\ tx_session' = None
    /\ inbound_stream' = None
    /\ sess_chan' = << >>
    /\ sess_rx_open' = FALSE
    /\ grpc_to_dm_open' = FALSE
    /\ UNCHANGED <<state, upPending, downPending, sleepLeft, handed, upFailed, lastFailAt,
                   attemptAt, attempts, recvDown, sessionNo, delivered, upQueueVars,
                   envVars, grpc_to_dm, arrived, inboundTail>>

\* ------------------------------------------------------------------------
\* AppContext::new, Repository::create_repository, Repository::new
\* ------------------------------------------------------------------------
\* what the startup leaves alone: no task exists yet
tasksVars == <<dbaVars, feedVars, dmQueueVars, dmVars, grpcQueueVars, grpcVars,
               sessionVars, upQueueVars, envVars, beatVars, castVars>>

\* Repository::new returned Err (the ? of create_pool or of init_schema):
\* the Err arm of create_repository logs it and starts sleep(WAIT_FOR)
RepoAttemptFailed ==
    /\ repoFails < MaxRepoFailures
    /\ repoFails' = repoFails + 1
    /\ repoPc' = "sleep"
    /\ repoLeft' = WAIT_FOR_SECS
    /\ repoSlept' = 0
    /\ poolOk' = FALSE
    /\ repoStmt' = 0

\* create_pool(system).await returns
RepoCreatePool ==
    /\ repoPc = "pool"
    /\ \/ /\ repoPc' = "schema"
          /\ poolOk' = TRUE
          /\ repoStmt' = 0
          /\ UNCHANGED <<repoLeft, repoSlept, repoFails>>
       \/ RepoAttemptFailed
    /\ UNCHANGED <<repoAttempts, produced, tasksVars>>

\* (variant of init_schema that reports success after its first table)
SchemaDoneAfterFirst(n) == n >= 1

\* init_schema has run its last create_table_*
SchemaDone(n) == n = SCHEMA_TABLES

\* one create_table_*(pool).await of init_schema returns; after the last one
\* Repository::new returns Ok and create_repository returns the repository
RepoCreateTable ==
    /\ repoPc = "schema"
    /\ \/ /\ repoStmt' = repoStmt + 1
          /\ repoPc' = IF SchemaDone(repoStmt + 1) THEN "ready" ELSE "schema"
          /\ UNCHANGED <<poolOk, repoLeft, repoSlept, repoFails>>
       \/ RepoAttemptFailed
    /\ UNCHANGED <<repoAttempts, produced, tasksVars>>

\* one second of sleep(WAIT_FOR) goes by
RepoTick ==
    /\ repoPc = "sleep"
    /\ repoLeft > 0
    /\ repoLeft' = repoLeft - 1
    /\ repoSlept' = repoSlept + 1
    /\ UNCHANGED <<repoPc, poolOk, repoStmt, repoAttempts, repoFails, produced, tasksVars>>

\* sleep(WAIT_FOR).await returns
RepoSleepOver == repoLeft = 0

\* the loop of create_repository calls Repository::new again
RepoRetry ==
    /\ repoPc = "sleep"
    /\ RepoSleepOver
    /\ repoPc' = "pool"
    /\ repoAttempts' = repoAttempts + 1
    /\ UNCHANGED <<poolOk, repoStmt, repoLeft, repoSlept, repoFails, produced, tasksVars>>

\* the upstream server has one more telemetry record for this client
ServerProduce ==
    /\ produced < MaxEnvelopes
    /\ produced' = produced + 1
    /\ UNCHANGED <<repoPc, poolOk, repoStmt, repoLeft, repoSlept, repoAttempts, repoFails,
                   tasksVars>>

\* (variant of main that spawns the tasks before the repository exists)
MayStartEarly == TRUE

\* the tasks take the AppContext by value: they are spawned after
\* AppContext::new().await has returned
MayStart == repoPc = "ready"

\* the stream client forwards a record the server has for it
Deliver ==
    /\ MayStart
    /\ Len(arrived) < produced
    /\ Arrive

\* the process at the call of AppContext::new
BootInit ==
    /\ repoPc = "pool"
    /\ poolOk = FALSE
    /\ repoStmt = 0
    /\ repoLeft = 0
    /\ repoSlept = 0
    /\ repoAttempts = 1
    /\ repoFails = 0
    /\ produced = 0

\* the process after AppContext::new returned at its first attempt
BootDone ==
    /\ repoPc = "ready"
    /\ poolOk = TRUE
    /\ repoStmt = SCHEMA_TABLES
    /\ repoLeft = 0
    /\ repoSlept = 0
    /\ repoAttempts = 1
    /\ repoFails = 0
    /\ produced = 0

\* the start of the three tasks, for the interval read from the environment
BeatInit ==
    /\ wdPc = "recv"
    /\ wdLeft = 0
    /\ h_to_w = << >>
    /\ h_to_w_open = TRUE
    /\ hbPc = "arm_first"
    /\ w_to_h = << >>
    /\ w_to_h_open = TRUE
    /\ w_to_h_rx = TRUE
    /\ umPc = "recv"
    /\ umPending = None
    /\ h_to_um = << >>
    /\ h_to_um_open = TRUE
    /\ armsSent = 0
    /\ timeoutsEmitted = 0
    /\ timeoutsHandled = 0
    /\ beats = 0
    /\ sleptSince = 0
    /\ sleepsSince = 0
    /\ hbTrace = << >>

DmQueueInit ==
    /\ dm_to_dba = << >>
    /\ dm_to_dba_open = TRUE

FeedInit ==
    /\ fed = 0
    /\ lastTag = "Heartbeat"

\* every task at its start, every queue empty
ActorsInit ==
    /\ DbaInit
    /\ DmQueueInit
    /\ FeedInit
    /\ DmInit
    /\ GrpcQueueInit
    /\ GrpcInit
    /\ UpQueueInit
    /\ BeatInit

\* the tasks as main spawns them, the repository created
TasksInit ==
    /\ ActorsInit
    /\ BootDone

\* no Monitor record is being converted
CastIdle ==
    /\ monitor_wifi_rssi = 0
    /\ wifi_rssi = None

Init ==
    /\ TasksInit
    /\ CastIdle
    /\ heartbeat_interval_secs = HEARTBEAT_INTERVAL_DEFAULT

Next ==
    \/ Feed
    \/ FeedClose
    \/ DbaRecv
    \/ RepoStmt
    \/ DbaExit

Spec == Init /\ [][Next]_vars

\* the conversion of the signal strength of one Monitor record, for every
\* input in RssiInputs
InitNarrow ==
    /\ TasksInit
    /\ heartbeat_interval_secs = HEARTBEAT_INTERVAL_DEFAULT
    /\ monitor_wifi_rssi \in RssiInputs
    /\ wifi_rssi = None

NextNarrow == MonitorCast

SpecNarrow == InitNarrow /\ [][NextNarrow]_vars

\* the inbound translator between its producer and dba_task
NextDownload ==
    \/ Arrive
    \/ ArriveClose
    \/ MsgDownloadRecv
    \/ MsgDownloadSend
    \/ MsgDownloadExit
    \/ DbaRecv
    \/ DbaExit

SpecDownload == Init /\ [][NextDownload]_vars

\* the stream client between the outbound translator and the server
NextGrpc ==
    \/ GrpcStep
    \/ Tick
    \/ ServerTake
    \/ ServerDropSession
    \/ UpFeed
    \/ UpClose

SpecGrpc == Init /\ [][NextGrpc]_vars

\* the stream client when every upload message is enqueued during an outage
NextOutage ==
    \/ GrpcStep
    \/ Tick
    \/ ServerTake
    \/ ServerDropSession
    \/ UpFeedInOutage
    \/ UpClose

SpecOutage == Init /\ [][NextOutage]_vars

\* the same under the scheduling of the runtime: a task that can take a step
\* takes it, and a running sleep elapses
SpecGrpcLive == SpecGrpc /\ WF_vars(GrpcStep) /\ WF_vars(Tick)

\* the stream client against a server that either refuses the connection,
\* for as long as it takes, or serves the session without a fault
GrpcStepNoFault == GrpcStep /\ failures' = failures

NextShutdown ==
    \/ GrpcStepNoFault
    \/ GrpcConnectRefused
    \/ Tick
    \/ ServerTake
    \/ UpFeed
    \/ UpClose

SpecShutdown == Init /\ [][NextShutdown]_vars

\* the same under the scheduling of the runtime
SpecShutdownLive ==
    SpecShutdown /\ WF_vars(GrpcStepNoFault \/ GrpcConnectRefused) /\ WF_vars(Tick)

\* the stream client in a burst of the server while message_download takes
\* nothing from its queue, the connection and the session without a fault
NextStall ==
    \/ GrpcConnect /\ failures' = failures
    \/ GrpcOpen /\ failures' = failures
    \/ GrpcSelectUp
    \/ GrpcSendUp
    \/ GrpcSelectDownBurst
    \/ GrpcSendDown
    \/ ServerTake
    \/ UpFeed

SpecStall == Init /\ [][NextStall]_vars

\* the stream client after message_download is gone: the server goes on
\* sending, and upload messages arrive once an envelope has been discarded
NextDeaf ==
    \/ GrpcConnect /\ failures' = failures
    \/ GrpcOpen /\ failures' = failures
    \/ MsgDownloadGone
    \/ GrpcSelectDownDeaf
    \/ GrpcSendDown
    \/ UpFeedAfterDiscard
    \/ GrpcSelectUp
    \/ GrpcSendUp
    \/ ServerTake

SpecDeaf == Init /\ [][NextDeaf]_vars

\* the inbound path from the stream to the storage in a long run of the
\* server, the connection and the session without a fault
NextOrder ==
    \/ GrpcConnect /\ failures' = failures
    \/ GrpcOpen /\ failures' = failures
    \/ GrpcSelectDownRun
    \/ GrpcSendDown
    \/ MsgDownloadRecv
    \/ MsgDownloadSend
    \/ DbaRecv
    \/ RepoStmt

SpecOrder == Init /\ [][NextOrder]_vars

\* the watchdog, the heartbeat generator and the outbound translator, for
\* the intervals up to MaxInterval, while the stream client takes nothing
\* from its queue
InitBeat ==
    /\ TasksInit
    /\ CastIdle
    /\ heartbeat_interval_secs \in 0..MaxInterval

NextBeat ==
    \/ WdRecv
    \/ WdExit
    \/ WdTick
    \/ WdWake
    \/ WdSend
    \/ HbArmFirst
    \/ HbRecv
    \/ HbExit
    \/ HbSendMsg
    \/ HbArm
    \/ HbDrop
    \/ WdDrop
    \/ MsgUploadRecv
    \/ MsgUploadSend
    \/ MsgUploadExit

SpecBeat == InitBeat /\ [][NextBeat]_vars

\* the watchdog and the heartbeat generator for the first MaxArms timeouts,
\* message_upload being dropped at some moment
NextMute ==
    \/ WdRecv
    \/ WdTick
    \/ WdWake
    \/ WdSend
    \/ HbArmFirst
    \/ HbRecv
    \/ HbSendMsg
    \/ HbArm /\ armsSent <= MaxArms
    \/ MsgUploadRecv
    \/ MsgUploadGone

SpecMute == InitBeat /\ [][NextMute]_vars

\* the watchdog, the heartbeat generator and message_upload through MaxPulse
\* heartbeats, no task being dropped
WdStep == WdRecv \/ WdTick \/ WdWake \/ WdSend

HbStepPulse == HbArmFirst \/ HbRecv \/ HbSendMsg \/ (HbArm /\ armsSent < MaxPulse)

UmStep == MsgUploadRecv \/ MsgUploadSend

NextPulse ==
    \/ WdStep
    \/ HbStepPulse
    \/ UmStep

SpecPulse == InitBeat /\ [][NextPulse]_vars

\* the same under the scheduling of the runtime: a task that can take a step
\* takes it, and a running sleep elapses
SpecPulseLive ==
    SpecPulse /\ WF_vars(WdStep) /\ WF_vars(HbStepPulse) /\ WF_vars(UmStep)

\* all tasks of main through MaxArms timeouts and MaxDown envelopes of the
\* server, the connection and the session without a fault; message_upload
\* is dropped at some moment, which closes the queue of the stream client
HbStepFew == HbArmFirst \/ HbRecv \/ HbSendMsg \/ (HbArm /\ armsSent <= MaxArms)

GrpcStepSteady ==
    \/ GrpcConnect /\ failures' = failures
    \/ GrpcOpen /\ failures' = failures
    \/ GrpcSelectUp
    \/ GrpcSendUp
    \/ GrpcSelectDown /\ failures' = failures
    \/ GrpcSendDown
    \/ GrpcSelectClosed

DmStep == MsgDownloadRecv \/ MsgDownloadSend \/ MsgDownloadExit

DbaStep == DbaRecv \/ DbaExit

NextCascade ==
    \/ WdStep
    \/ HbStepFew
    \/ UmStep
    \/ MsgUploadGone
    \/ GrpcStepSteady
    \/ DmStep
    \/ DbaStep

SpecCascade == InitBeat /\ [][NextCascade]_vars

\* the same under the scheduling of the runtime
SpecCascadeLive == SpecCascade /\ WF_vars(DmStep) /\ WF_vars(DbaStep)

\* the watchdog between any sender of its arm queue and any receiver of its
\* timeout queue
NextWatchdog ==
    \/ ArmSenderSends
    \/ ArmSenderDrops
    \/ WdRecv
    \/ WdExit
    \/ WdTick
    \/ WdWake
    \/ WdSend
    \/ TimeoutReceiverTakes
    \/ TimeoutReceiverDrops

SpecWatchdog == InitBeat /\ [][NextWatchdog]_vars

\* message_upload between any sender of its queue and the stream client,
\* which takes what it is sent until it is gone
NextUpload ==
    \/ UploadSenderSends
    \/ UploadSenderDrops
    \/ MsgUploadRecv
    \/ MsgUploadSend
    \/ MsgUploadExit
    \/ GrpcConnect /\ failures' = failures
    \/ GrpcOpen /\ failures' = failures
    \/ GrpcSelectUp
    \/ GrpcSendUp
    \/ GrpcSelectClosed
    \/ ServerTake
    \/ GrpcTaskGone

SpecUpload == Init /\ [][NextUpload]_vars

\* the six queues under load. The inbound side and the heartbeat side share
\* no variable, so each is filled while the other has not moved yet. On the
\* inbound side the server delivers one telemetry record at a time, each
\* when the tasks behind the queue have come to rest, and the bulk insert of
\* the first full batch has not returned; the heartbeat side runs as in
\* SpecBeat.
DownstreamAtRest ==
    /\ \/ dmPc = "recv" /\ grpc_to_dm = << >>
       \/ dmPc = "send" /\ Len(dm_to_dba) = DM_TO_DBA_CAP
    /\ \/ dbaPc = "recv" /\ dm_to_dba = << >>
       \/ dbaPc = "insert"

\* tx_to_msg.send(InternalEvent::IncomingMessage(..)).await of the stream
\* client returns once the queue has room
ArriveSteady ==
    /\ grpc_to_dm_open
    /\ DownstreamAtRest
    /\ HasRoom(grpc_to_dm, GRPC_TO_DM_CAP)
    /\ LET ev == Envelope(Len(arrived) + 1, "FromEdge", "Measurement", Some(WireMeta))
       IN  /\ grpc_to_dm' = Append(grpc_to_dm, ev)
           /\ arrived' = Append(arrived, ev)
    /\ UNCHANGED <<dbaVars, feedVars, dmQueueVars, dmVars, grpc_to_dm_open, streamSide>>

\* no task of the heartbeat side has taken a step
BeatSideNotStarted == hbPc = "arm_first" /\ wdPc = "recv"

\* the server has delivered nothing
InboundSideNotStarted == arrived = << >>

NextFabric ==
    \/ BeatSideNotStarted /\ ArriveSteady
    \/ MsgDownloadRecv
    \/ MsgDownloadSend
    \/ DbaRecv
    \/ InboundSideNotStarted /\ NextBeat

SpecFabric == InitBeat /\ [][NextFabric]_vars

\* the process from the call of AppContext::new on: the creation of the
\* repository against a storage that fails up to MaxRepoFailures times,
\* then the inbound side
InitStartup ==
    /\ ActorsInit
    /\ BootInit
    /\ CastIdle
    /\ heartbeat_interval_secs = HEARTBEAT_INTERVAL_DEFAULT

NextStartup ==
    \/ RepoCreatePool
    \/ RepoCreateTable
    \/ RepoTick
    \/ RepoRetry
    \/ ServerProduce
    \/ Deliver
    \/ MayStart /\ MsgDownloadRecv
    \/ MayStart /\ MsgDownloadSend
    \/ MayStart /\ DbaRecv

SpecStartup == InitStartup /\ [][NextStartup]_vars

\* ========================================================================
\* Properties
\* ========================================================================
Rows(s) == {s[n] : n \in 1..Len(s)}
BufferRows(v) == UNION {Rows(v[f]) : f \in VectorFields}
TableRows(tb) == UNION {Rows(tb[t]) : t \in Tables}
AllEmpty(v) == \A f \in VectorFields : v[f] = << >>
NonEmptyFields(v) == {f \in VectorFields : v[f] # << >>}

\* the sequence that holds the records of a telemetry variant
FieldOfTag(tag) ==
    CASE tag = "Report"   -> "measurement"
      [] tag = "Monitor"  -> "monitor"
      [] tag = "Metrics"  -> "system_metrics"
      [] tag = "AlertAir" -> "alert_air"
      [] tag = "AlertTem" -> "alert_th"

\* ---- C1 ----------------------------------------------------------------
\* C1: whenever an append brings one of the five sequences to exactly
\* BATCH_SIZE, that very step calls Repository::insert once with the whole
\* buffer; no message is received while the insert runs; and the step that
\* ends the insert leaves all five sequences empty and starts no second
\* flush.
C1_Step ==
    /\ (recvd' = recvd + 1 /\ \E f \in VectorFields : Len(vector'[f]) = BATCH_SIZE)
          => /\ dbaPc' = "insert"
             /\ tdv' = vector'
             /\ flushAt' = Append(flushAt, recvd')
    /\ dbaPc = "insert" => recvd' = recvd /\ Len(flushAt') = Len(flushAt)
    /\ (dbaPc = "insert" /\ dbaPc' # "insert")
          => /\ dbaPc' = "recv"
             /\ AllEmpty(vector')
             /\ Len(results') = Len(results) + 1
    /\ dbaPc' = "recv" => \A f \in VectorFields : Len(vector'[f]) < BATCH_SIZE

C1_FlushOnFull == [][C1_Step]_vars

\* a flush of a buffer with two non-empty sequences has ended
C1_Witness ==
    /\ dbaPc = "recv"
    /\ Len(flushAt) = 1 /\ Len(results) = 1
    /\ AllEmpty(vector)
    /\ Cardinality({t \in Tables : tables[t] # << >>}) >= 2

\* ---- C2 ----------------------------------------------------------------
\* C2: when the N records received so far are all of one telemetry variant,
\* there were exactly N div BATCH_SIZE flushes, the i-th right after record
\* i * BATCH_SIZE, and outside a running insert the buffer holds N mod
\* BATCH_SIZE records of that variant and none of any other; N = 150 gives
\* one flush, after record 100, and 50 pending records.
C2_SingleVariant ==
    \A tag \in TelemetryTags :
       recvTags = {tag} =>
          /\ Len(flushAt) = recvd \div BATCH_SIZE
          /\ \A i \in 1..Len(flushAt) : flushAt[i] = i * BATCH_SIZE
          /\ dbaPc # "insert" =>
                /\ Len(vector[FieldOfTag(tag)]) = recvd % BATCH_SIZE
                /\ \A f \in VectorFields \ {FieldOfTag(tag)} : vector[f] = << >>
          /\ recvd < BATCH_SIZE => flushAt = << >> /\ Len(vector[FieldOfTag(tag)]) = recvd
          /\ recvd = 150 => flushAt = <<100>> /\ Len(vector[FieldOfTag(tag)]) = 50

\* 150 Measurement records were received
C2_Witness ==
    /\ recvTags = {"Report"}
    /\ recvd = 150
    /\ flushAt = <<100>>
    /\ Len(vector.measurement) = 50

\* ---- C3 ----------------------------------------------------------------
\* C3: the step that ends a flush attempt, Ok or Err, empties the buffer and
\* returns to the receive loop; each flush is one call of insert (no retry);
\* the writer stops only on a closed and drained queue; and a record of a
\* failed batch that was not committed is from then on neither in the
\* buffer nor in a table.
C3_Step ==
    /\ (dbaPc = "insert" /\ dbaPc' # "insert")
          => /\ dbaPc' = "recv"
             /\ AllEmpty(vector')
             /\ \E r \in {"Ok", "Err"} : results' = Append(results, r)
             /\ Len(results') = Len(flushAt')
    /\ Len(flushAt') - Len(results') = (IF dbaPc' = "insert" THEN 1 ELSE 0)
    /\ dbaPc' = "done" => (dm_to_dba' = << >> /\ ~dm_to_dba_open')
    /\ results' = Append(results, "Err")
          => /\ tables' = tables
             /\ dropped' = dropped \cup (BufferRows(vector) \ TableRows(tables))
             /\ BufferRows(vector) \ TableRows(tables) # {}
    /\ dropped' \cap (BufferRows(vector') \cup TableRows(tables')) = {}

C3_ClearedAfterFlushAttempt == [][C3_Step]_vars

\* a failed flush is behind, records were lost, the writer receives again
C3_Witness ==
    /\ Len(results) >= 1 /\ results[1] = "Err"
    /\ dropped # {}
    /\ dbaPc = "recv"
    /\ recvd > flushAt[1]
    /\ ~AllEmpty(vector)

\* ---- C4 ----------------------------------------------------------------
\* C4: no step removes a committed row from a table; in particular the step
\* in which a statement of insert fails leaves every table as it was, with
\* the rows the earlier statements of the same flush committed.
C4_Step ==
    /\ \A t \in Tables :
          /\ Len(tables[t]) <= Len(tables'[t])
          /\ SubSeq(tables'[t], 1, Len(tables[t])) = tables[t]
    /\ results' = Append(results, "Err")
          => \A j \in 1..(insStmt - 1) :
                Rows(tdv[StmtOrder[j].field]) \subseteq Rows(tables'[StmtOrder[j].table])

C4_NoRollback == [][C4_Step]_vars

\* the first flush failed at a later statement after an earlier one committed
C4_Witness ==
    /\ results = <<"Err">>
    /\ \E t \in Tables : tables[t] # << >>
    /\ dropped # {}
\* ---- C5 ----------------------------------------------------------------
NoMetadata(ev) == ev.payload = "FromEdge" /\ ev.inner \in InnerTags /\ ev.metadata = << >>
Complete(ev) == ev.payload = "FromEdge" /\ ev.inner \in InnerTags /\ ev.metadata # << >>
IdsOf(q) == [n \in 1..Len(q) |-> q[n].id]

\* C5: the step in which message_download takes an envelope whose telemetry
\* record has no metadata sends nothing and leaves the writer queue and the
\* buffer as they were, the translator going back to its receive; no message
\* made from such an envelope is ever sent, queued or buffered; the
\* translator returns only on a closed and drained queue; and the messages
\* it has sent or is sending are, in order, those of the complete envelopes
\* among the ones it has taken.
C5_Step ==
    /\ (dmConsumed' = dmConsumed + 1 /\ NoMetadata(Head(grpc_to_dm)))
          => /\ dm_to_dba' = dm_to_dba
             /\ dmSent' = dmSent
             /\ vector' = vector
             /\ dmPc' = "recv" /\ dmPending' = << >>
    /\ \A m \in Rows(dmSent') \cup Rows(dmPending') \cup Rows(dm_to_dba')
                   \cup BufferRows(vector') :
          ~NoMetadata(arrived'[m.id])
    /\ dmPc' = "done" => (grpc_to_dm' = << >> /\ ~grpc_to_dm_open')
    /\ IdsOf(dmSent' \o dmPending')
          = IdsOf(SelectSeq(SubSeq(arrived', 1, dmConsumed'), Complete))

C5_NoMetadataDropped == [][C5_Step]_vars

\* an envelope without metadata was taken, and the complete envelope after it
\* reached the buffer
C5_Witness ==
    /\ Len(arrived) >= 2
    /\ NoMetadata(arrived[1])
    /\ Complete(arrived[2])
    /\ dmConsumed >= 2
    /\ IdsOf(dmSent) = <<2>>
    /\ {m.id : m \in BufferRows(vector)} = {2}

\* ---- the stream client ----

GrpcStates == {"Init", "Work", "Error"}

AllowedTransitions ==
    {<<"Init", "Work">>, <<"Init", "Error">>, <<"Work", "Error">>,
     <<"Work", "Init">>, <<"Error", "Init">>}

\* C6: grpc_task starts in Init and takes only the transitions Init to Work
\* (after both create_channel and connect_stream succeeded), Init to Error
\* (after either failed), Work to Error, Work to Init (only without a
\* sender/cursor pair), Error to Init and Work to terminated; a connect attempt
\* never follows another without the Error arm between them, and the Error arm
\* is left only for Init and is not run twice in a row.
C6_Step ==
    /\ state \in GrpcStates /\ state' \in GrpcStates
    /\ state' # state => <<state, state'>> \in AllowedTransitions
    /\ (state = "Init" /\ state' = "Work") =>
          /\ grpcEvent = "connect_ok" /\ grpcEvent' = "open_ok"
          /\ tx_session' # None /\ inbound_stream' # None
    /\ (state = "Init" /\ grpcEvent' \in {"connect_failed", "open_failed"}
          /\ grpcEvent' # grpcEvent) => state' = "Error"
    /\ (state = "Init" /\ state' = "Error") =>
          grpcEvent' \in {"connect_failed", "open_failed"}
    /\ (state = "Init" /\ grpcPc' # grpcPc) =>
          \/ grpcPc = "connect" /\ grpcPc' = "open" /\ state' = "Init"
          \/ grpcPc = "connect" /\ grpcPc' = "sleep" /\ state' = "Error"
          \/ grpcPc = "open" /\ grpcPc' = "select" /\ state' = "Work"
          \/ grpcPc = "open" /\ grpcPc' = "sleep" /\ state' = "Error"
    /\ (state = "Work" /\ state' = "Init") =>
          tx_session = None \/ inbound_stream = None
    /\ (grpcPc' = "done" /\ grpcPc # "done") => state = "Work" /\ state' = "Work"
    /\ grpcPc = "done" => grpcPc' = "done" /\ state' = state
    /\ attempts' # attempts =>
          state = "Error" /\ state' = "Init" /\ attempts' = attempts + 1
    /\ (state = "Error" /\ grpcPc' # grpcPc) => state' = "Init" /\ grpcPc' = "connect"
    /\ (state = "Error" /\ grpcPc' = grpcPc) =>
          state' = "Error" /\ sleepLeft' <= sleepLeft /\ lastFailAt' = lastFailAt

C6_InitialState ==
    (attempts = 1 /\ eventsSeen = {}) => state = "Init" /\ grpcPc = "connect"

C6_Transitions == [][C6_Step /\ C6_InitialState]_vars

\* a failed attempt, a session, its failure and a second session, then the end
C6_Witness ==
    /\ grpcPc = "done"
    /\ sessionNo = 2
    /\ attempts = 4
    /\ {"connect_failed", "open_failed", "open_ok", "wake"} \subseteq eventsSeen

WorkFailures == {"send_failed", "stream_err", "stream_end"}

\* C7: in the Work arm of grpc_task a failed tx_sess.send, an Err item of the
\* inbound stream and the end of the inbound stream each set state to Error.
C7_Step ==
    /\ (grpcEvent' \in WorkFailures /\ grpcEvent' # grpcEvent) =>
          state = "Work" /\ state' = "Error" /\ grpcPc' = "sleep"
    /\ (grpcPc = "send_up" /\ ~sess_rx_open /\ grpcPc' # grpcPc) =>
          grpcEvent' = "send_failed" /\ state' = "Error"

C7_WorkFailuresToError == [][C7_Step]_vars

C7_Witness ==
    /\ WorkFailures \subseteq eventsSeen
    /\ grpcEvent \in WorkFailures
    /\ state = "Error"

\* C8: in the Error arm grpc_task holds neither the session sender nor the
\* inbound cursor, and it sleeps the whole 5 s before state becomes Init: every
\* connect attempt after the first begins at least 5 s after the failure before
\* it.
C8_ReleaseAndBackoff ==
    /\ state = "Error" => tx_session = None /\ inbound_stream = None /\ ~sess_rx_open
    /\ attempts >= 2 => lastFailAt >= 0
    /\ (attempts >= 2 /\ state # "Error") => attemptAt >= lastFailAt + 5
    /\ (state = "Error" /\ grpcPc = "sleep") => now + sleepLeft >= lastFailAt + 5

C8_Witness ==
    /\ attempts = 3
    /\ state = "Init"
    /\ grpcEvent = "wake"
    /\ attemptAt = lastFailAt + 5
    /\ "stream_end" \in eventsSeen

\* C9: no failure ends grpc_task: it returns only when the queue from
\* message_upload is closed, and, the failures being finitely many, every stay
\* in Error is followed by Work.
C9_ReconnectsAfterFailures ==
    /\ [](grpcPc = "done" => "up_closed" \in eventsSeen)
    /\ (state = "Error") ~> (state = "Work")

\* Work reached after consecutive failed attempts
C9_Witness ==
    /\ state = "Work"
    /\ grpcPc = "select"
    /\ sessionNo = 1
    /\ failures = MaxFailures
    /\ attempts = MaxFailures + 1

HandedIds == {handed[i].id : i \in DOMAIN handed}

\* C10: every message taken from the queue of message_upload is handed to a
\* session sender at most once: it does not come back to the queue, a message
\* whose send failed reaches no session, and no id is handed twice.
C10_HandedAtMostOnce ==
    /\ \A i, j \in DOMAIN handed : i # j => handed[i].id # handed[j].id
    /\ \A k \in DOMAIN um_to_grpc : um_to_grpc[k].id \notin HandedIds
    /\ \A id \in upFailed :
          /\ id \in HandedIds
          /\ \A k \in DOMAIN sess_chan : sess_chan[k].id # id
          /\ \A k \in DOMAIN delivered : delivered[k].id # id
    /\ upPending # None => Unwrap(upPending).id \in HandedIds

\* a send failed on the first session and a later message went to the second
C10_Witness ==
    /\ upFailed # {}
    /\ sessionNo = 2
    /\ \E i \in DOMAIN handed : handed[i].session = 2 /\ handed[i].id \notin upFailed
    /\ \E k \in DOMAIN delivered : delivered[k].id \notin upFailed

\* ---- the watchdog, the heartbeat generator and the outbound translator ----

\* C12: between two heartbeats of run_heartbeat, and between its start and
\* the first heartbeat, the watchdog completes a sleep of the configured
\* interval: every heartbeat is sent after one whole sleep, and the seconds
\* slept since the heartbeat before it are no fewer than the interval.
C12_Step ==
    beats' # beats =>
        /\ beats' = beats + 1
        /\ sleepsSince = 1
        /\ sleptSince = heartbeat_interval_secs

C12_OneSleepPerBeat == [][C12_Step]_vars

C12_Witness ==
    /\ beats = 3
    /\ heartbeat_interval_secs = MaxInterval
    /\ hbPc = "recv"
    /\ wdPc = "sleep"

C16_OneTokenInFlight ==
    /\ Len(h_to_w) + Len(w_to_h) <= 1
    /\ wdPc \in {"sleep", "send"} =>
          /\ h_to_w = << >>
          /\ w_to_h = << >>
          /\ hbPc \in {"recv", "done", "dropped"}

C16_Witness ==
    /\ wdPc = "sleep"
    /\ wdLeft > 0
    /\ hbPc = "recv"
    /\ beats = 2
    /\ armsSent = 3

\* C17: once the sender of the arm queue is gone the watchdog emits no
\* Timeout any more, and when it is Idle with the queue closed and empty its
\* next step is the end of the task.
C17_Step ==
    /\ ~h_to_w_open => timeoutsEmitted' = timeoutsEmitted
    /\ (wdPc = "recv" /\ ~h_to_w_open /\ h_to_w = << >>) =>
          /\ wdPc' \in {"recv", "done", "dropped"}
          /\ ENABLED <<WdExit>>_vars

C17_ClosedWhileIdle == [][C17_Step]_vars

\* the watchdog has ended after a Timeout for every InitTimer
C17_Witness ==
    /\ wdPc = "done"
    /\ hbPc = "dropped"
    /\ timeoutsEmitted = 2
    /\ armsSent = timeoutsEmitted

\* C18: when tx_to_heartbeat.send(Timeout) finds the receiver gone the
\* watchdog ends: it emits nothing, does not go back to recv, and takes
\* nothing from the arm queue afterwards.
C18_Step ==
    /\ (wdPc = "send" /\ ~w_to_h_rx /\ wdPc' # wdPc) =>
          /\ wdPc' \in {"done", "dropped"}
          /\ timeoutsEmitted' = timeoutsEmitted
          /\ w_to_h' = w_to_h
    /\ (wdPc = "send" /\ ~w_to_h_rx) => ENABLED <<WdSend>>_vars
    /\ wdPc = "done" => wdPc' = "done" /\ h_to_w' = h_to_w /\ ~w_to_h_open'

C18_StopsWhenReceiverGone == [][C18_Step]_vars

\* the watchdog has ended with an InitTimer it did not answer
C18_Witness ==
    /\ wdPc = "done"
    /\ hbPc = "dropped"
    /\ timeoutsEmitted = 1
    /\ armsSent = 2

\* ------------------------------------------------------------------------
\* C13  (grpc_task takes from um_to_grpc only in its Work arm, so while it
\* is in Init or Error the heartbeats pile up in um_to_grpc, in the hands of
\* message_upload and in h_to_um)
\* ------------------------------------------------------------------------
UNDELIVERED_MAX == H_TO_UM_CAP + 1 + UM_TO_GRPC_CAP

HeartbeatsUnderway == IdsOf(um_to_grpc) \o IdsOf(umPending) \o IdsOf(h_to_um)

\* the records on their way to dba_task, oldest first
RecordsUnderway == IdsOf(dm_to_dba) \o IdsOf(dmPending) \o IdsOf(grpc_to_dm)

C19_Step ==
    /\ (repoPc # "ready" /\ repoPc' = "ready") =>
          /\ repoPc = "schema"
          /\ poolOk /\ poolOk'
          /\ repoStmt' = SCHEMA_TABLES
          /\ repoFails' = repoFails
    /\ repoFails' # repoFails =>
          /\ repoFails' = repoFails + 1
          /\ repoPc \in {"pool", "schema"}
          /\ repoPc' = "sleep"
          /\ repoLeft' = WAIT_FOR_SECS
          /\ repoSlept' = 0
    /\ (repoPc = "sleep" /\ repoPc' # "sleep") =>
          /\ repoSlept = WAIT_FOR_SECS
          /\ repoPc' = "pool"
          /\ repoAttempts' = repoAttempts + 1
    /\ repoPc = "ready" => repoPc' = "ready"

\* C19: create_repository returns only from an attempt in which the pool
\* was created and all the tables of the schema were; every failed attempt
\* is followed by a sleep of the whole WAIT_FOR and then by a new attempt,
\* however many attempts have failed; nothing but the return ends the loop.
C19_RetryUntilCreated ==
    [][C19_Step]_vars
        /\ [](repoPc \in {"pool", "schema", "sleep", "ready"})
        /\ [](repoAttempts = repoFails + (IF repoPc = "sleep" THEN 0 ELSE 1))
        /\ [](repoPc = "sleep" => ENABLED <<RepoTick \/ RepoRetry>>_vars)
        /\ [](repoPc = "ready" => poolOk /\ repoStmt = SCHEMA_TABLES)

\* the repository is created at the attempt after the last failure the
\* storage had in it
C19_Witness ==
    /\ repoPc = "ready"
    /\ repoFails = MaxRepoFailures
    /\ repoAttempts = MaxRepoFailures + 1
    /\ repoSlept = WAIT_FOR_SECS

CompleteIn(q) == Len(SelectSeq(q, Complete))

ClosedAndDrained == ~um_to_grpc_open /\ um_to_grpc = << >>

\* C11, as stated: once the queue is closed and drained the stream client
\* eventually terminates, also when the server stays unreachable.
C11_TerminatesWhenClosed == ClosedAndDrained ~> grpcPc = "done"

C11_Step ==
    (grpcPc # "done" /\ grpcPc' = "done") =>
        /\ state = "Work"
        /\ grpcPc = "select"
        /\ ClosedAndDrained

\* C11, amended: the stream client returns only from the select of Work,
\* on the closed and drained queue; waiting there on such a queue it can
\* return, and it then returns unless the session fails first; in Init and
\* Error, and while a send of Work is pending, the closed queue does not
\* end it.
C11_TerminatesFromWork ==
    [][C11_Step]_vars
        /\ []((ClosedAndDrained /\ grpcPc = "select") => ENABLED <<GrpcSelectClosed>>_vars)
        /\ []((ClosedAndDrained /\ grpcPc \notin {"select", "done"})
                 => ~ENABLED <<GrpcSelectClosed>>_vars)
        /\ ((ClosedAndDrained /\ state = "Work") ~> (grpcPc = "done" \/ state = "Error"))

\* the queue is closed and drained, and the stream client is at its third
\* failed attempt since
C11_Witness ==
    /\ ClosedAndDrained
    /\ state = "Error"
    /\ grpcPc = "sleep"
    /\ failures = 0
    /\ attempts = AttemptsKept
    /\ upFed = 0

\* ------------------------------------------------------------------------
\* C21
\* ------------------------------------------------------------------------
\* grpc_task is inside tx_to_msg.send(..).await, the inbound queue is full
\* and its receiver alive
SuspendedOnInbound ==
    /\ grpcPc = "send_down"
    /\ dmPc # "done"
    /\ Len(grpc_to_dm) = GRPC_TO_DM_CAP

\* C21, as stated: in Work a message waiting in the translator-to-stream-
\* client queue is forwarded whatever the inbound queue does, so it never
\* waits behind a stream client that is suspended on the full inbound queue.
C21_UploadNeverBehindInbound ==
    (state = "Work" /\ um_to_grpc # << >>) => ~SuspendedOnInbound

\* C21, amended: in Work a waiting message can be taken whenever the stream
\* client is at its select; while the stream client is suspended on the full
\* inbound queue it takes nothing from the translator-to-stream-client
\* queue and can take no step at all.
C21_ForwardsUnlessSuspended ==
    /\ (state = "Work" /\ grpcPc = "select" /\ um_to_grpc # << >>)
          => ENABLED <<GrpcSelectUp>>_vars
    /\ SuspendedOnInbound =>
          /\ ~ENABLED <<GrpcSelectUp>>_vars
          /\ ~ENABLED <<GrpcSendDown>>_vars
          /\ ~ENABLED <<GrpcStep>>_vars

\* the stream client is suspended on the full inbound queue, and the message
\* of the outbound translator waits
C21_Witness ==
    /\ state = "Work"
    /\ SuspendedOnInbound
    /\ um_to_grpc # << >>
    /\ handed = << >>
    /\ ~ENABLED <<GrpcStep>>_vars

\* ------------------------------------------------------------------------
\* C22
\* ------------------------------------------------------------------------
FullFields(v) == {f \in VectorFields : Len(v[f]) = BATCH_SIZE}

\* C22: no sequence of the buffer is ever longer than BATCH_SIZE; when
\* dba_task is at rx.recv() every sequence is shorter than BATCH_SIZE; and
\* while a flush is under way the buffer, and the clone handed to
\* Repository::insert, have exactly one sequence of BATCH_SIZE records, the
\* other four being shorter.
C22_LengthsWithinThreshold ==
    /\ \A f \in VectorFields : Len(vector[f]) <= BATCH_SIZE
    /\ dbaPc = "recv" => FullFields(vector) = {}
    /\ dbaPc = "insert" =>
          /\ Cardinality(FullFields(vector)) = 1
          /\ tdv = vector

\* a flush was triggered by the measurement sequence while the monitor
\* sequence holds one record
C22_Witness ==
    /\ dbaPc = "insert"
    /\ Len(vector.measurement) = BATCH_SIZE
    /\ Len(vector.monitor) = 1
    /\ FullFields(vector) = {"measurement"}

\* ------------------------------------------------------------------------
\* C23
\* ------------------------------------------------------------------------
\* the statements of insert after position i whose sequence is not empty
LaterStmts(t, i) == {j \in (i + 1)..Len(StmtOrder) : t[StmtOrder[j].field] # << >>}

C23_Step ==
    /\ dbaPc' = "insert" =>
          /\ insStmt' \in 1..Len(StmtOrder)
          /\ tdv'[StmtOrder[insStmt'].field] # << >>
    /\ (dbaPc = "insert" /\ dbaPc' = "insert") =>
          /\ tdv' = tdv
          /\ \/ insStmt' = insStmt /\ tables' = tables
             \/ /\ insStmt' > insStmt
                /\ \A j \in (insStmt + 1)..(insStmt' - 1) :
                      tdv[StmtOrder[j].field] = << >>
                /\ tables' = [tables EXCEPT ![StmtOrder[insStmt].table] =
                                                @ \o tdv[StmtOrder[insStmt].field]]
    /\ results' = Append(results, "Ok") =>
          /\ LaterStmts(tdv, insStmt) = {}
          /\ tables' = [tables EXCEPT ![StmtOrder[insStmt].table] =
                                          @ \o tdv[StmtOrder[insStmt].field]]
    /\ results' = Append(results, "Err") =>
          /\ tables' = tables
          /\ dbaPc' = "recv"
    /\ tables' # tables => dbaPc = "insert"

\* C23: insert issues its statements in the order measurement, monitor,
\* alert_temp, alert_air, metric, each at most once and only for a sequence
\* that is not empty; a statement that succeeds appends that sequence to
\* its table; the first statement that fails ends insert with the error,
\* and no later statement writes anything.
C23_OrderedStopAtFirstError ==
    [][C23_Step]_vars
        /\ []([j \in 1..Len(StmtOrder) |-> StmtOrder[j].table]
                 = <<"measurement", "monitor", "alert_temp", "alert_air", "metric">>)

\* the second statement of a flush failed: the first sequence is in its
\* table, the second is not, and the three empty ones were skipped
C23_Witness ==
    /\ results = <<"Err">>
    /\ Len(tables.measurement) = BATCH_SIZE
    /\ \A t \in Tables \ {"measurement"} : tables[t] = << >>
    /\ \E m \in dropped : m.tag = "Monitor"

\* ------------------------------------------------------------------------
\* C24
\* ------------------------------------------------------------------------
\* the table that holds the records of a telemetry variant
TableOfTag(tag) ==
    CASE tag = "Report"   -> "measurement"
      [] tag = "Monitor"  -> "monitor"
      [] tag = "Metrics"  -> "metric"
      [] tag = "AlertAir" -> "alert_air"
      [] tag = "AlertTem" -> "alert_temp"

C24_Step ==
    recvd' = recvd + 1 =>
        LET msg == Head(dm_to_dba)
        IN  IF msg.tag \in TelemetryTags
            THEN vector' = [vector EXCEPT ![FieldOfTag(msg.tag)] = Append(@, msg)]
            ELSE vector' = vector

\* C24: the step in which dba_task receives a record appends it to the
\* sequence of its variant and leaves the other four as they were; every
\* sequence of the buffer, and of the clone being inserted, holds records
\* of its own variant only, and so does every table.
C24_NoCrossContamination ==
    [][C24_Step]_vars
        /\ [](\A f \in VectorFields :
                 /\ \A n \in DOMAIN vector[f] : FieldOfTag(vector[f][n].tag) = f
                 /\ \A n \in DOMAIN tdv[f] : FieldOfTag(tdv[f][n].tag) = f)
        /\ [](\A t \in Tables :
                 \A n \in DOMAIN tables[t] : TableOfTag(tables[t][n].tag) = t)

\* a flush wrote the records of two variants
C24_Witness ==
    /\ Len(tables.alert_air) = BATCH_SIZE
    /\ Len(tables.alert_temp) = 1
    /\ results = <<"Ok">>

\* ------------------------------------------------------------------------
\* C25
\* ------------------------------------------------------------------------
\* the records of the flush attempts that are over: written or lost
PastAttempts == TableRows(tables) \cup dropped

\* the number of records in the sequences of a record
RECURSIVE SumLen(_, _)
SumLen(r, fs) ==
    IF fs = {} THEN 0
    ELSE LET f == CHOOSE f \in fs : TRUE
         IN  Len(r[f]) + SumLen(r, fs \ {f})

\* the sequences of a record hold no record twice
NoRepeats(r) ==
    Cardinality(UNION {Rows(r[f]) : f \in DOMAIN r}) = SumLen(r, DOMAIN r)

C25_Step ==
    /\ recvd' = recvd + 1 =>
          LET msg == Head(dm_to_dba)
          IN  msg.tag \in TelemetryTags =>
                 /\ msg \in BufferRows(vector')
                 /\ msg \notin BufferRows(vector)
                 /\ msg \notin PastAttempts
    /\ vector' # vector =>
          \/ recvd' = recvd + 1 /\ BufferRows(vector) \subseteq BufferRows(vector')
          \/ /\ dbaPc = "insert" /\ dbaPc' = "recv"
             /\ BufferRows(vector) \subseteq (TableRows(tables') \cup dropped')
             /\ BufferRows(vector') = {}
    /\ (dbaPc = "recv" /\ dbaPc' = "insert") =>
            /\ tdv' = vector'
            /\ BufferRows(tdv') \cap PastAttempts = {}
    /\ (dbaPc = "insert" /\ dbaPc' = "recv") =>
            /\ BufferRows(tdv) \subseteq (TableRows(tables') \cup dropped')
            /\ BufferRows(vector') \cap (TableRows(tables') \cup dropped') = {}
            /\ TableRows(tables') \cap dropped' = {}
    /\ tables' # tables => NoRepeats(tables')

\* C25: a received record is new to the buffer and to the flush attempts
\* that are over, and enters the buffer; the buffer loses records only when
\* a flush attempt ends, all of them, into the records written or lost by
\* that attempt; the batch of a flush attempt is the buffer and holds no
\* record of an earlier attempt; after an attempt the buffer holds none of
\* the records written or lost; no record is both written and lost, none is
\* written twice, and the buffer holds none twice.
C25_AtMostOneFlush ==
    [][C25_Step]_vars /\ [](NoRepeats(vector))

\* a failed attempt, then a successful one, then a record received
C25_Witness ==
    /\ results = <<"Err", "Ok">>
    /\ dropped # {}
    /\ TableRows(tables) # {}
    /\ dbaPc = "recv"
    /\ BufferRows(vector) # {}

\* ------------------------------------------------------------------------
\* C26
\* ------------------------------------------------------------------------
\* the messages of q that belong to the sequence f, in the order of q
OfField(q, f) == SelectSeq(q, LAMBDA m : FieldOfTag(m.tag) = f)

\* the messages made from the complete envelopes of q, in the order of q
Translated(q) ==
    LET sel == SelectSeq(q, Complete)
    IN  [n \in 1..Len(sel) |-> Unwrap(Translate(sel[n]))]

\* the number of messages dba_task had received at its latest flush
LastFlushAt == IF flushAt = << >> THEN 0 ELSE flushAt[Len(flushAt)]

Increasing(q) == \A n \in 1..(Len(q) - 1) : q[n].id < q[n + 1].id

C26_Step ==
    (dbaPc = "recv" /\ dbaPc' = "insert") =>
        \A f \in VectorFields :
            tdv'[f] = OfField(SubSeq(dmSent, LastFlushAt + 1, recvd'), f)

\* C26: the envelopes the stream client forwards are those the stream
\* yielded, in that order; the messages message_download sends are, in
\* order, those made from the complete envelopes it took; the batch of each
\* flush, and the buffer between flushes, hold for each variant the messages
\* of that variant received since the flush before, in the order they were
\* sent; and the rows of each table are in the order of the stream.
C26_OrderPreserved ==
    [][C26_Step]_vars
        /\ [](IdsOf(arrived \o downPending) = [n \in 1..recvDown |-> n])
        /\ [](dmSent \o dmPending = Translated(SubSeq(arrived, 1, dmConsumed)))
        /\ [](dbaPc = "recv" =>
                 \A f \in VectorFields :
                     vector[f] = OfField(SubSeq(dmSent, LastFlushAt + 1, recvd), f))
        /\ [](\A t \in Tables : Increasing(tables[t]))

\* the second flush of a run that began with a Monitor record, the first
\* flush stored
C26_Witness ==
    /\ Len(arrived) > 2
    /\ arrived[1].inner = "Monitor"
    /\ IdsOf(tables.monitor) = <<1>>
    /\ Len(tables.measurement) = BATCH_SIZE
    /\ dbaPc = "insert"
    /\ Len(flushAt) = 2
    /\ tdv.measurement[1].id = BATCH_SIZE + 2

\* ------------------------------------------------------------------------
\* C27
\* ------------------------------------------------------------------------
C27_Step ==
    /\ (grpcPc # "connect" /\ grpcPc' = "connect") => grpcPc = "sleep"
    /\ ~(state = "Work" /\ state' = "Init")
    /\ (state # "Work" /\ state' = "Work") =>
            (grpcPc = "open" /\ tx_session' # None /\ inbound_stream' # None)

\* C27: in state Work the stream client, until it returns, holds a session
\* sender and an inbound cursor; Work is entered only from a successful open, with both;
\* the Init arm is entered only from the sleep of the Error arm, never from
\* Work.
C27_WorkHoldsPair ==
    [][C27_Step]_vars
        /\ []((state = "Work" /\ grpcPc # "done") =>
                  (tx_session # None /\ inbound_stream # None))
        /\ [](grpcPc \in {"select", "send_up", "send_down"} => state = "Work")

\* Work again, with the pair of the second session, after a failure
C27_Witness ==
    /\ state = "Work"
    /\ grpcPc = "select"
    /\ tx_session = Some(2)
    /\ inbound_stream = Some(2)
    /\ "wake" \in eventsSeen

\* ------------------------------------------------------------------------
\* C28
\* ------------------------------------------------------------------------
IsArm(ev) == ev[1] = "InitTimer"

\* the arm commands the watchdog has taken from its queue
ArmsConsumed == armsSent - Len(SelectSeq(h_to_w, IsArm))

\* C28, as stated: whenever the watchdog is not sleeping or sending for an
\* arm command, it has emitted one Timeout for every arm command it took.
C28_OneTimeoutPerArm ==
    wdPc \notin {"sleep", "send"} => timeoutsEmitted = ArmsConsumed

C28_Step ==
    /\ timeoutsEmitted' # timeoutsEmitted =>
          /\ timeoutsEmitted' = timeoutsEmitted + 1
          /\ wdPc = "send" /\ wdLeft = 0 /\ w_to_h_rx
          /\ w_to_h' = Append(w_to_h, Timeout)
          /\ wdPc' = "recv"
    /\ (wdPc # "sleep" /\ wdPc' = "sleep") =>
          /\ wdPc = "recv" /\ h_to_w # << >> /\ IsArm(Head(h_to_w))
          /\ h_to_w' = Tail(h_to_w)
          /\ wdLeft' = Head(h_to_w)[2]
    /\ (wdPc # "send" /\ wdPc' = "send") => (wdPc = "sleep" /\ wdLeft = 0)
    /\ wdPc = "sleep" => (wdLeft' = wdLeft \/ wdLeft' = wdLeft - 1)
    /\ wdPc \in {"sleep", "send"} => SubSeq(h_to_w', 1, Len(h_to_w)) = h_to_w
    /\ (wdPc = "recv" /\ h_to_w # << >> /\ ~IsArm(Head(h_to_w))
            /\ Len(h_to_w') < Len(h_to_w)) =>
          /\ h_to_w' = Tail(h_to_w)
          /\ wdPc' = "recv" /\ wdLeft' = wdLeft
          /\ w_to_h' = w_to_h /\ timeoutsEmitted' = timeoutsEmitted

\* C28, amended: a Timeout is emitted only by the send that follows the
\* whole sleep of an arm command taken from the queue, one per command; back
\* at recv the watchdog has emitted one Timeout for every arm command it
\* took, and when it has ended it has done so for all of them, or for all but
\* the last when the receiver of the timeout queue is gone; while it sleeps
\* or sends it takes nothing from the arm queue; an event that is not an arm
\* command is taken at recv and changes nothing else.
C28_OneTimeoutPerArmUnlessReceiverGone ==
    [][C28_Step]_vars
        /\ [](wdPc = "recv" => timeoutsEmitted = ArmsConsumed)
        /\ [](wdPc \in {"sleep", "send"} => timeoutsEmitted + 1 = ArmsConsumed)
        /\ [](wdPc = "done" =>
                 \/ timeoutsEmitted = ArmsConsumed
                 \/ ~w_to_h_rx /\ timeoutsEmitted + 1 = ArmsConsumed)

\* a Timeout on the arm queue was skipped, then an arm command answered,
\* and the next one is being slept on
C28_Witness ==
    /\ wdPc = "sleep"
    /\ wdLeft = 1
    /\ heartbeat_interval_secs = 2
    /\ timeoutsEmitted = 1
    /\ ArmsConsumed = 2
    /\ h_to_w = <<Timeout>>

\* ------------------------------------------------------------------------
\* C29
\* ------------------------------------------------------------------------
IsHeartbeat(m) == m.tag = "Heartbeat"

\* the upload envelopes message_upload has sent, in order
UploadsEmitted == IdsOf(handed) \o IdsOf(um_to_grpc)

\* the Heartbeat messages message_upload has received
HeartbeatsReceived == beats - Len(SelectSeq(h_to_um, IsHeartbeat))

C29_Step ==
    /\ (umPc = "recv" /\ Len(h_to_um') < Len(h_to_um)) =>
          IF IsHeartbeat(Head(h_to_um))
          THEN /\ umPc' = "send"
               /\ umPending' = Some(Upload(Head(h_to_um).id))
               /\ um_to_grpc' = um_to_grpc
          ELSE /\ umPc' = "recv"
               /\ umPending' = None
               /\ um_to_grpc' = um_to_grpc
    /\ (umPc = "send" /\ umPc' # "send") =>
          /\ umPc' = "recv"
          /\ umPending' = None
          /\ um_to_grpc' = IF grpcPc = "done" THEN um_to_grpc
                           ELSE Append(um_to_grpc, Unwrap(umPending))
    /\ (umPc = "send" /\ grpcPc = "done") => ENABLED <<MsgUploadSend>>_vars
    /\ (umPc = "recv" /\ h_to_um # << >>) => ENABLED <<MsgUploadRecv>>_vars
    /\ umPc' = "done" => (h_to_um' = << >> /\ ~h_to_um_open')

\* C29: a Heartbeat taken from the queue becomes one upload envelope and a
\* message of any other variant becomes none; a send that ends puts the
\* envelope at the end of the queue toward grpc_task, or drops it when
\* grpc_task is gone, and in both cases message_upload goes back to recv,
\* which it leaves for good only on a closed and drained queue; the
\* envelopes sent are those of the first Heartbeats received, in their
\* order, the one being sent is that of the latest, and while grpc_task is
\* there none is missing.
C29_OneUploadPerHeartbeat ==
    [][C29_Step]_vars
        /\ [](UploadsEmitted = [n \in 1..Len(UploadsEmitted) |-> n])
        /\ [](umPending # None => Unwrap(umPending).id = HeartbeatsReceived)
        /\ [](Len(UploadsEmitted) + Len(umPending) <= HeartbeatsReceived)
        /\ [](grpcPc # "done" =>
                 Len(UploadsEmitted) + Len(umPending) = HeartbeatsReceived)

\* two Heartbeats forwarded, grpc_task gone, the third dropped and a
\* telemetry record skipped after it
C29_Witness ==
    /\ grpcPc = "done"
    /\ Len(UploadsEmitted) = 2
    /\ HeartbeatsReceived = 3
    /\ umPc = "recv"
    /\ h_to_um = <<Msg("Report", 0, FeedMeta)>>
    /\ h_to_um_open

\* ------------------------------------------------------------------------
\* C30
\* ------------------------------------------------------------------------
\* the tag of a telemetry record on the wire and the variant it names
NamedVariant ==
    {<<"Measurement", "Report">>, <<"Monitor", "Monitor">>, <<"AlertAir", "AlertAir">>,
     <<"AlertTh", "AlertTem">>, <<"Metrics", "Metrics">>}

EmptyPayload(ev) == ev.payload = "None" \/ ev.inner = "None"

\* the records made from envelope n that message_download has sent or is
\* sending
RecordsOf(n) == Len(SelectSeq(dmSent \o dmPending, LAMBDA m : m.id = n))

C30_Step ==
    /\ dmConsumed' = dmConsumed + 1 =>
          LET ev == Head(grpc_to_dm)
          IN  /\ dm_to_dba' = dm_to_dba /\ dmSent' = dmSent
              /\ EmptyPayload(ev) => (dmPc' = "recv" /\ dmPending' = None)
              /\ Complete(ev) =>
                    /\ dmPc' = "send"
                    /\ Len(dmPending') = 1
                    /\ Unwrap(dmPending').id = ev.id
                    /\ <<ev.inner, Unwrap(dmPending').tag>> \in NamedVariant
    /\ (dmPc = "send" /\ dmPc' # "send") =>
          /\ dm_to_dba' = Append(dm_to_dba, Unwrap(dmPending))
          /\ dmPc' = "recv" /\ dmPending' = None
    /\ Len(dm_to_dba') > Len(dm_to_dba) => dmPc = "send"
    /\ (dmPc = "recv" /\ grpc_to_dm # << >>) => ENABLED <<MsgDownloadRecv>>_vars
    /\ dmPc' = "done" => (grpc_to_dm' = << >> /\ ~grpc_to_dm_open')

\* C30: the step that takes an envelope sends nothing itself; it leaves the
\* translator at recv with nothing to send when the outer or the inner
\* payload is empty, and at its send with one record of the named variant
\* when the record is complete; the send puts that one record on the
\* writer queue; the translator ends only on a closed and drained queue;
\* and of every envelope taken there is one record when it is complete and
\* none when a payload is empty.
C30_AtMostOnePerEnvelope ==
    [][C30_Step]_vars
        /\ [](\A n \in 1..dmConsumed :
                 /\ RecordsOf(n) <= 1
                 /\ Complete(arrived[n]) => RecordsOf(n) = 1
                 /\ EmptyPayload(arrived[n]) => RecordsOf(n) = 0)

\* an envelope without payload and one without inner payload were passed
\* over, and the AlertTh record after them was sent as an AlertTem message
C30_Witness ==
    /\ dmConsumed = 3
    /\ arrived[1].payload = "None"
    /\ arrived[2].payload = "FromEdge" /\ arrived[2].inner = "None"
    /\ arrived[3].inner = "AlertTh"
    /\ Len(dmSent) = 1
    /\ dmSent[1].tag = "AlertTem"
    /\ dmSent[1].id = 3
    /\ dmPc = "recv"

\* ------------------------------------------------------------------------
\* C31
\* ------------------------------------------------------------------------
\* C31: the signal strength stored for a Monitor record is
\* ((x + 128) mod 256) - 128 for the value x received, and lies in the i8
\* range.
C31_NarrowedByTruncation ==
    wifi_rssi # None =>
        /\ Unwrap(wifi_rssi) = ((monitor_wifi_rssi + 128) % 256) - 128
        /\ Unwrap(wifi_rssi) \in I8_MIN..I8_MAX

\* a value above the i8 range was stored wrapped, not clamped
C31_Witness ==
    /\ monitor_wifi_rssi = 200
    /\ wifi_rssi = Some(-56)

\* ------------------------------------------------------------------------
\* C32
\* ------------------------------------------------------------------------
\* C32: nothing message_download makes of an envelope, sends or has sent,
\* and nothing on the writer queue, is a Heartbeat; and whenever dba_task
\* waits at recv, a Heartbeat given to its match would leave the five
\* sequences as they are, none of them full, so that no insert would follow.
C32_NoHeartbeatToWriter ==
    /\ \A sh \in EnvelopeShapes :
          LET out == Translate(Envelope(1, sh[1], sh[2], sh[3]))
          IN  out # None => Unwrap(out).tag \in TelemetryTags
    /\ \A m \in Rows(dmSent) \cup Rows(dmPending) \cup Rows(dm_to_dba) :
          m.tag # "Heartbeat"
    /\ dbaPc = "recv" =>
          LET v == push(vector, HeartbeatMsg(1))
          IN  /\ v = vector
              /\ ~is_some_vector_full(v)

\* dba_task waits at recv one record short of a flush, the next one queued
C32_Witness ==
    /\ dbaPc = "recv"
    /\ Len(vector.measurement) = BATCH_SIZE - 1
    /\ vector.monitor # << >>
    /\ dm_to_dba # << >>
    /\ results = << >>

\* ------------------------------------------------------------------------
\* C33
\* ------------------------------------------------------------------------
C33_Step ==
    /\ (dbaPc # "insert" /\ dbaPc' = "insert") =>
          /\ dbaPc = "recv"
          /\ recvd' = recvd + 1
          /\ LET msg == Head(dm_to_dba)
             IN  /\ msg.tag \in TelemetryTags
                 /\ Len(vector[FieldOfTag(msg.tag)]) = BATCH_SIZE - 1
                 /\ Len(vector'[FieldOfTag(msg.tag)]) = BATCH_SIZE
          /\ flushAt' = Append(flushAt, recvd')
    /\ flushAt' # flushAt => (dbaPc # "insert" /\ dbaPc' = "insert")
    /\ tables' # tables => dbaPc = "insert"
    /\ (dbaPc # "done" /\ dbaPc' = "done") =>
          /\ dbaPc = "recv" /\ dm_to_dba = << >> /\ ~dm_to_dba_open
          /\ flushAt' = flushAt /\ tables' = tables /\ results' = results
    /\ dbaPc = "done" =>
          /\ dbaPc' = "done"
          /\ flushAt' = flushAt /\ tables' = tables /\ results' = results

\* C33: an insert begins only in the step that receives the record which
\* brings its sequence from BATCH_SIZE - 1 to BATCH_SIZE, and nothing is
\* written outside an insert; the task returns from recv on the closed and
\* drained queue without an insert, and after that none begins and no table
\* changes; what the buffer held then, fewer than BATCH_SIZE records in each
\* sequence, is in no table.
C33_FlushOnlyOnThreshold ==
    [][C33_Step]_vars
        /\ [](dbaPc = "done" =>
                 /\ \A f \in VectorFields : Len(vector[f]) < BATCH_SIZE
                 /\ BufferRows(vector) \cap TableRows(tables) = {})

\* the writer has returned after one flush with 99 Measurement records
\* still in its buffer
C33_Witness ==
    /\ dbaPc = "done"
    /\ Len(flushAt) = 1
    /\ Len(vector.measurement) = BATCH_SIZE - 1
    /\ Len(tables.measurement) = BATCH_SIZE

\* ------------------------------------------------------------------------
\* C34
\* ------------------------------------------------------------------------
C34_Step ==
    /\ state \in {"Init", "Error"} =>
          /\ handed' = handed
          /\ upPending' = upPending
          /\ \/ um_to_grpc' = um_to_grpc
             \/ \E k \in 1..MaxUp : um_to_grpc' = Append(um_to_grpc, Upload(k))
    /\ handed' # handed =>
          /\ state = "Work"
          /\ tx_session = Some(sessionNo)
          /\ um_to_grpc # << >>
          /\ um_to_grpc' = Tail(um_to_grpc)
          /\ handed' = Append(handed, [id |-> Head(um_to_grpc).id, session |-> sessionNo])

\* C34: in Init and in Error no step takes a message from the queue of
\* message_upload, which can only grow at its end; a message leaves it only
\* in Work, from the head, for the sender of the session then open; so the
\* messages are handed over in the order they were enqueued, each to a
\* session no older than that of the message before it, and what the
\* sessions carry is in that order too.
C34_QueuedThroughOutage ==
    [][C34_Step]_vars
        /\ [](/\ \A i \in 1..Len(handed) : handed[i].id = i
              /\ um_to_grpc = [i \in 1..(upFed - Len(handed)) |-> Upload(Len(handed) + i)]
              /\ \A i, j \in 1..Len(handed) :
                    i < j => handed[i].session <= handed[j].session
              /\ LET carried == delivered \o sess_chan
                 IN  \A i, j \in 1..Len(carried) : i < j => carried[i].id < carried[j].id)

\* both messages were enqueued without a session, after the first session
\* was lost the second one took them in order and the server has them
C34_Witness ==
    /\ state = "Work"
    /\ sessionNo = 2
    /\ handed = <<[id |-> 1, session |-> 2], [id |-> 2, session |-> 2]>>
    /\ delivered = <<Upload(1), Upload(2)>>

\* ------------------------------------------------------------------------
\* C35
\* ------------------------------------------------------------------------
C35_Step ==
    /\ (tx_session' # tx_session /\ tx_session' # None) \/
       (inbound_stream' # inbound_stream /\ inbound_stream' # None) \/
       sessionNo' # sessionNo =>
          /\ state = "Init"
          /\ grpcPc = "open"
          /\ tx_session = None
          /\ inbound_stream = None
          /\ sessionNo' = sessionNo + 1
          /\ tx_session' = Some(sessionNo')
          /\ inbound_stream' = Some(sessionNo')
          /\ sessionNo > 0 => lastFailAt >= 0
    /\ (tx_session # None /\ tx_session' = None) =>
          state' = "Error" \/ grpcPc' = "done"

\* C35: the sender of the session is present exactly when the cursor is, and
\* then both belong to the newest session and the state is Work; a pair is
\* assigned only by the step of the Init arm in which connect_stream returns
\* Ok, with both Options empty at that moment, and for every session after
\* the first an Error arm has run before; a pair is given up only by entering
\* the Error arm or by the return of the task.
C35_OneSession ==
    [][C35_Step]_vars
        /\ [](/\ tx_session # None <=> inbound_stream # None
              /\ tx_session # None =>
                    /\ tx_session = Some(sessionNo)
                    /\ inbound_stream = Some(sessionNo)
                    /\ state = "Work"
              /\ (state = "Work" /\ grpcPc # "done") => tx_session # None)

\* the second session is open: its pair was assigned after the pair of the
\* first was released
C35_Witness ==
    /\ state = "Work"
    /\ grpcPc = "select"
    /\ sessionNo = 2
    /\ tx_session = Some(2)
    /\ inbound_stream = Some(2)

\* ------------------------------------------------------------------------
\* C36
\* ------------------------------------------------------------------------
C36_Step ==
    (grpcPc = "send_down" /\ grpcPc' # "send_down" /\ dmPc = "done") =>
        /\ state' = "Work"
        /\ grpcPc' = "select"
        /\ downPending' = None
        /\ grpcEvent' = "down_send_failed"
        /\ UNCHANGED <<grpc_to_dm, arrived, tx_session, inbound_stream, sess_chan,
                       sess_rx_open, um_to_grpc, upPending, handed, dmQueueVars, dbaVars>>

\* C36: with message_download gone, the step in which the send of an inbound
\* envelope returns leaves the envelope in no queue, keeps the state Work and
\* the session, and comes back to the select!; the task is then neither in
\* Error nor returned, nothing has reached the queue, and a queued upload
\* message can be taken.
C36_DiscardAndStayInWork ==
    [][C36_Step]_vars
        /\ [](dmPc = "done" =>
                 /\ grpc_to_dm = << >>
                 /\ arrived = << >>
                 /\ state # "Error"
                 /\ grpcPc \notin {"done", "sleep"}
                 /\ (grpcPc = "select" /\ um_to_grpc # << >>) => ENABLED <<GrpcSelectUp>>_vars)

\* two envelopes were discarded and both upload messages, enqueued after the
\* first discard, went out on the session that was open all along
C36_Witness ==
    /\ dmPc = "done"
    /\ recvDown = 2
    /\ downPending = None
    /\ state = "Work"
    /\ sessionNo = 1
    /\ handed = <<[id |-> 1, session |-> 1], [id |-> 2, session |-> 1]>>
    /\ delivered = <<Upload(1), Upload(2)>>

\* ------------------------------------------------------------------------
\* C37
\* ------------------------------------------------------------------------
C37_Step ==
    /\ (hbPc = "send_msg" /\ hbPc' # "send_msg" /\ umPc = "done") =>
          /\ hbPc' = "arm"
          /\ UNCHANGED <<h_to_um, beats, hbTrace, armsSent, timeoutsHandled, wdVars,
                         w_to_h, w_to_h_open, w_to_h_rx>>
    /\ (hbPc = "arm" /\ hbPc' # "arm") =>
          /\ hbPc' = "recv"
          /\ armsSent' = armsSent + 1
          /\ h_to_w' = Append(h_to_w, InitTimer(heartbeat_interval_secs))
    /\ umPc = "done" => (beats' = beats /\ h_to_um' = << >>)

\* C37: with message_upload gone, the return of the send of the heartbeat
\* changes nothing but the position of run_heartbeat, which is then at the
\* send of the InitTimer; that send puts the InitTimer into the queue of the
\* watchdog, so every Timeout handled is followed by one InitTimer, neither
\* task ends, one token is in flight as before, and no heartbeat is counted
\* or queued any more.
C37_RearmsAfterFailedBeat ==
    [][C37_Step]_vars
        /\ [](/\ hbPc \notin {"done", "dropped"}
              /\ wdPc \notin {"done", "dropped"}
              /\ hbPc = "recv" => armsSent = timeoutsHandled + 1
              /\ hbPc \in {"send_msg", "arm"} => armsSent = timeoutsHandled
              /\ Len(h_to_w) + Len(w_to_h) <= 1
              /\ (hbPc = "arm" /\ umPc = "done") => ENABLED <<HbArm>>_vars)

\* one heartbeat went out, message_upload was dropped, the next two were
\* lost, and the fourth InitTimer has been sent
C37_Witness ==
    /\ umPc = "done"
    /\ timeoutsHandled = 3
    /\ beats = 1
    /\ armsSent = 4
    /\ hbPc = "recv"
    /\ h_to_w = <<InitTimer(heartbeat_interval_secs)>>

\* ------------------------------------------------------------------------
\* C38
\* ------------------------------------------------------------------------
\* where the token of the cycle can be: an InitTimer in the arm queue, the
\* watchdog between taking it and having emitted the Timeout, a Timeout in
\* the timeout queue, run_heartbeat between taking it and having sent the
\* next InitTimer
TokenPlaces ==
    <<h_to_w # << >>,
      wdPc \in {"sleep", "send"},
      w_to_h # << >>,
      hbPc \in {"send_msg", "arm"}>>

TokensNow == Cardinality({n \in 1..4 : TokenPlaces[n]})

\* (the claim as stated) in every reachable state exactly one of the four
\* holds
C38_ExactlyOneInEveryState == TokensNow = 1

\* C38: before run_heartbeat has sent its first InitTimer none of the four
\* holds, and from then on exactly one of them does: an InitTimer is queued,
\* the watchdog is between taking it and having emitted the Timeout, a
\* Timeout is queued, or run_heartbeat is handling one; and under the
\* scheduling of the runtime, with message_upload taking what is queued for
\* it, every heartbeat is followed by another one.
C38_PingPongAlive ==
    /\ [](hbPc = "arm_first" => TokensNow = 0)
    /\ [](hbPc # "arm_first" => TokensNow = 1)
    /\ \A k \in 0..(MaxPulse - 1) : (beats = k) ~> (beats = k + 1)

\* the eleventh heartbeat is out, one more than the queue of message_upload
\* holds, and the watchdog sleeps again
C38_Witness ==
    /\ beats = H_TO_UM_CAP + 1
    /\ wdPc = "sleep"
    /\ hbPc = "recv"
    /\ TokensNow = 1
    /\ upFed >= 1

\* ------------------------------------------------------------------------
\* C39
\* ------------------------------------------------------------------------
C39_Step ==
    /\ (grpcPc # "done" /\ grpcPc' = "done") =>
          /\ ~um_to_grpc_open /\ um_to_grpc = << >>
          /\ ~grpc_to_dm_open'
    /\ (dmPc # "done" /\ dmPc' = "done") =>
          /\ grpcPc = "done"
          /\ grpc_to_dm = << >>
          /\ dmConsumed = Len(arrived)
          /\ ~dm_to_dba_open'
    /\ (dbaPc # "done" /\ dbaPc' = "done") =>
          /\ dmPc = "done"
          /\ dm_to_dba = << >>
          /\ recvd = Len(dmSent)

\* C39: the watchdog and run_heartbeat never end and neither of their
\* queues closes, each end being held by the other task, so that neither
\* recv can yield None; grpc_task returns only on its closed and drained
\* queue; message_download returns only after grpc_task, with its queue
\* empty and every delivered envelope consumed, and dba_task only after
\* message_download, with its queue empty and every message received; and
\* once grpc_task has returned both do return.
C39_TerminationGoesDownstream ==
    /\ [][C39_Step]_vars
    /\ [](/\ wdPc \notin {"done", "dropped"}
          /\ hbPc \notin {"done", "dropped"}
          /\ h_to_w_open /\ w_to_h_open /\ w_to_h_rx
          /\ ~ENABLED <<WdExit>>_vars
          /\ ~ENABLED <<HbExit>>_vars
          /\ dbaPc = "done" => dmPc = "done"
          /\ dmPc = "done" => grpcPc = "done")
    /\ (grpcPc = "done") ~> (dmPc = "done" /\ dbaPc = "done")

\* grpc_task returned with an envelope still in the queue of
\* message_download; it was translated and received by dba_task before both
\* returned, while the watchdog sleeps for the next heartbeat
C39_Witness ==
    /\ grpcPc = "done"
    /\ dmPc = "done"
    /\ dbaPc = "done"
    /\ Len(arrived) = 1
    /\ recvd = 1
    /\ wdPc = "sleep"
    /\ armsSent >= 2

====
